---- MODULE Spec2Model ----
(***************************************************************************)
(* A model of the documentation monitor: the diff engine (src/src/differ.py)*)
(* and the report generator (src/src/reporter.py), with the run loop of    *)
(* src/src/main.py.                                                         *)
(*                                                                          *)
(* Texts are sequences of one-character strings.  A Python string that the *)
(* program only builds and compares (a summary, a timestamp, a path) is a  *)
(* sequence of string tokens, so that equal strings are equal sequences.   *)
(* An optional value (None or a value) is a sequence of length 0 or 1.     *)
(***************************************************************************)
EXTENDS Integers, Sequences, FiniteSets, TLC

VARIABLES
    page_slug,      \* differ: the slug handed to compute_diff
    old_content,    \* differ: the stored text
    new_content,    \* differ: the fetched text
    diff,           \* differ: <<>> before compute_diff returns, <<DiffResult>> after
    now,            \* reporter: the wall clock, in hours since 2025-12-31T00:00Z
    meta,           \* reporter: meta.json of each day directory, <<>> when absent
    daily_index,    \* reporter: what index.html of each day directory was rendered from
    main_index,     \* reporter: what index.html of the reports root was rendered from
    calls,          \* history: per day directory, the report_time of each
                    \* generate_daily_index call so far, in call order
    proc,           \* two processes inside generate_daily_index: where each
                    \* stands, its arguments and the batch list it has read
    docs,           \* monitor: the stored snapshots <slug>.md, a function from
                    \* their paths below docs_dir to their texts
    artifacts,      \* reporter: the page artifacts <day>/<source_id>/<slug>.html,
                    \* a function from their paths to what they were rendered from
    result,         \* monitor: <<>>, or <<the SourceRunResult of the last run>>
    runs,           \* history: the number of runs made
    last_run,       \* history: <<>>, or <<the arguments of the last run, what
                    \* fetch_all returned to it and how it ended>>
    cli,            \* history: <<>>, or <<the options and inputs of the last
                    \* run of the command line and its exit code>>
    analysed,       \* history: <<>>, or <<the last call of the analyzer and
                    \* what it returned>>
    retry,          \* fetcher: <<>>, or <<the fetch_page_with_retry call in
                    \* progress or returned>>
    pool,           \* fetcher: <<>>, or <<the fetch_all call in progress or
                    \* returned>>
    notice,         \* notifier: <<>>, or <<the source results handed to
                    \* format_message and the message it built>>
    raw,            \* normalizer: the two documents handed to it
    normalized      \* normalizer: <<>>, or the pair of its results

differ_vars == <<page_slug, old_content, new_content, diff>>
norm_vars == <<raw, normalized>>
report_vars == <<now, meta, daily_index, main_index, calls>>
fetch_vars == <<retry, pool, notice>>
run_vars == <<docs, artifacts, result, runs, last_run, cli, analysed, fetch_vars>>
vars == <<differ_vars, norm_vars, report_vars, proc, run_vars>>

(***************************************************************************)
(* Bounds and input sets                                                    *)
(***************************************************************************)
\* The longest text drawn for the diff engine.
MaxLen == 3

\* The characters of the texts drawn for the diff engine.
Alphabet == {"a", "b", "\n"}

Texts == UNION {[1..k -> Alphabet] : k \in 0..MaxLen}

\* A slug is its path components: "api/messages" is <<"api", "messages">>.
Slugs == {<<"overview">>, <<"api", "messages">>}

Range(s) == {s[i] : i \in 1..Len(s)}

(***************************************************************************)
(* str.splitlines and the f-string number format                            *)
(***************************************************************************)
\* The characters that end a line, among those of the model's texts.
LineEnds == {"\n", "\r"}

\* The position of the first line end of s, 0 when it has none.
FirstBreak(s) ==
    IF \E i \in 1..Len(s) : s[i] \in LineEnds
    THEN CHOOSE i \in 1..Len(s) : s[i] \in LineEnds /\ \A j \in 1..(i-1) : s[j] \notin LineEnds
    ELSE 0

\* The length of the line end at position i: "\r\n" is one line end.
BreakLen(s, i) == IF s[i] = "\r" /\ i < Len(s) /\ s[i+1] = "\n" THEN 2 ELSE 1

RECURSIVE splitlines(_)
\* str.splitlines(): the lines without their line ends; no empty last line
\* after a final line end, and no line at all for the empty text.
splitlines(s) ==
    IF s = <<>> THEN <<>>
    ELSE LET i == FirstBreak(s)
         IN IF i = 0 THEN <<s>>
            ELSE <<SubSeq(s, 1, i-1)>>
                 \o splitlines(SubSeq(s, i + BreakLen(s, i), Len(s)))

RECURSIVE splitlines_keepends(_)
\* str.splitlines(keepends=True): the same lines, each with its line end.
splitlines_keepends(s) ==
    IF s = <<>> THEN <<>>
    ELSE LET i == FirstBreak(s)
         IN IF i = 0 THEN <<s>>
            ELSE <<SubSeq(s, 1, i + BreakLen(s, i) - 1)>>
                 \o splitlines_keepends(SubSeq(s, i + BreakLen(s, i), Len(s)))

DigitChar == <<"0", "1", "2", "3", "4", "5", "6", "7", "8", "9">>

RECURSIVE Decimal(_)
\* f"{n}" of a natural number: its decimal digits.
Decimal(n) ==
    IF n < 10 THEN <<DigitChar[n+1]>>
    ELSE Decimal(n \div 10) \o <<DigitChar[(n % 10) + 1]>>

(***************************************************************************)
(* DocumentDiffer                                                           *)
(***************************************************************************)
\* difflib.unified_diff of the two line lists under the labels a/<slug>.md and
\* b/<slug>.md.  The two header lines are kept; the hunks, a function of the
\* two line lists, are kept as those lists (marked "-" and "+").  It is not
\* empty when the texts differ.
_compute_unified_diff(slug, old, new) ==
    LET old_lines == splitlines_keepends(old)
        new_lines == splitlines_keepends(new)
    IN << <<"--- a/">> \o slug \o <<".md">>, <<"+++ b/">> \o slug \o <<".md">> >>
       \o [i \in 1..Len(old_lines) |-> <<"-">> \o old_lines[i]]
       \o [i \in 1..Len(new_lines) |-> <<"+">> \o new_lines[i]]

\* diff_match_patch's diff_main, diff_cleanupSemantic, diff_prettyHtml: the
\* rendering is a function of the two texts, kept as the pair of texts.
_compute_html_diff(old, new) == <<old, new>>

_count_changes_unique(old, new) ==
    LET old_lines == splitlines(old)
        new_lines == splitlines(new)
    IN << Cardinality({i \in 1..Len(new_lines) : new_lines[i] \notin Range(old_lines)}),
          Cardinality({i \in 1..Len(old_lines) : old_lines[i] \notin Range(new_lines)}) >>

\* <<added, removed>>: the sizes of the differences of the two sets of lines.
_count_changes(old, new) ==
    LET old_lines == Range(splitlines(old))
        new_lines == Range(splitlines(new))
    IN <<Cardinality(new_lines \ old_lines), Cardinality(old_lines \ new_lines)>>

\* ", ".join(parts)
RECURSIVE Join(_)
Join(parts) ==
    IF parts = <<>> THEN <<>>
    ELSE IF Len(parts) = 1 THEN parts[1]
    ELSE parts[1] \o <<", ">> \o Join(Tail(parts))

_generate_summary_nochanges(added, removed) ==
    IF added = 0 /\ removed = 0 THEN <<"No changes">>
    ELSE Join((IF added > 0 THEN << <<"+">> \o Decimal(added) \o <<" lines">> >> ELSE <<>>)
              \o (IF removed > 0 THEN << <<"-">> \o Decimal(removed) \o <<" lines">> >> ELSE <<>>))

_generate_summary_bothsides(added, removed) ==
    IF added = 0 /\ removed = 0 THEN <<"Formatting changes">>
    ELSE <<"+">> \o Decimal(added) \o <<" lines">> \o <<", ">>
         \o <<"-">> \o Decimal(removed) \o <<" lines">>

_generate_summary(added, removed) ==
    IF added = 0 /\ removed = 0 THEN <<"Formatting changes">>
    ELSE Join((IF added > 0 THEN << <<"+">> \o Decimal(added) \o <<" lines">> >> ELSE <<>>)
              \o (IF removed > 0 THEN << <<"-">> \o Decimal(removed) \o <<" lines">> >> ELSE <<>>))

\* text.rstrip("\n")
RECURSIVE rstrip_newlines(_)
rstrip_newlines(s) ==
    IF s # <<>> /\ s[Len(s)] = "\n" THEN rstrip_newlines(SubSeq(s, 1, Len(s)-1)) ELSE s

DiffResult(slug, has_changes, old, new, unified, html, added, removed, summary) ==
    [page_slug |-> slug, has_changes |-> has_changes,
     old_content |-> old, new_content |-> new,
     unified_diff |-> unified, html_diff |-> html,
     added_lines |-> added, removed_lines |-> removed, summary |-> summary,
     \* set by DocMonitor.run, read by the reporter; empty until then
     source_id |-> <<>>, source_name |-> <<>>]

compute_diff_body(slug, old, new, has_changes) ==
    IF ~has_changes
    THEN DiffResult(slug, FALSE, old, new, <<>>, <<>>, 0, 0, <<"No changes">>)
    ELSE LET counts == _count_changes(old, new)
         IN DiffResult(slug, TRUE, old, new,
                       _compute_unified_diff(slug, old, new),
                       _compute_html_diff(old, new),
                       counts[1], counts[2],
                       _generate_summary(counts[1], counts[2]))

compute_diff_stripped(slug, old, new) ==
    compute_diff_body(slug, old, new, rstrip_newlines(old) # rstrip_newlines(new))

compute_diff(slug, old, new) ==
    compute_diff_body(slug, old, new, old # new)

(***************************************************************************)
(* Time and the date directories of the reporter                            *)
(***************************************************************************)
\* The last day on which a run may start, counted from 2025-12-31.
MaxDay == 1

\* The hours (UTC) of a day at which a run may start.
RunHours == {0, 12}

\* A report_time: hours since 2025-12-31T00:00Z.
Times == {24 * d + h : d \in 0..MaxDay, h \in RunHours}

\* EST = ZoneInfo("America/New_York"): five hours behind UTC in December and
\* January, the months of the model's times.
EstOffsetHours == 5

astimezone_EST(t) == t - EstOffsetHours

\* The calendar date of a local time; day 0 is 2025-12-31.
DateOf(hours) ==
    LET n == hours \div 24
    IN IF n <= 0 THEN [year |-> 2025, month |-> 12, day |-> 31 + n]
       ELSE [year |-> 2026, month |-> 1, day |-> n]

HourOf(hours) == hours % 24

ZeroPad_unpadded(n, width) == Decimal(n)

\* f"{n:0{width}d}"
ZeroPad(n, width) ==
    LET d == Decimal(n)
    IN IF Len(d) >= width THEN d ELSE [i \in 1..(width - Len(d)) |-> "0"] \o d

MonthAbbr == [m \in 1..12 |->
    <<"Jan", "Feb", "Mar", "Apr", "May", "Jun",
      "Jul", "Aug", "Sep", "Oct", "Nov", "Dec">>[m]]

\* The day directory of a run, relative to reports_dir: <<year, month, day>>,
\* each a zero-padded number, of the date in EST.
_get_date_dir(report_time) ==
    LET est == DateOf(astimezone_EST(report_time))
    IN <<ZeroPad(est.year, 4), ZeroPad(est.month, 2), ZeroPad(est.day, 2)>>

\* report_time.strftime("%Y-%m-%d"): the date of the run in UTC.
strftime_date(report_time) ==
    LET utc == DateOf(report_time)
    IN ZeroPad(utc.year, 4) \o <<"-">> \o ZeroPad(utc.month, 2) \o <<"-">> \o ZeroPad(utc.day, 2)

\* get_report_url(report_time), reporter.py lines 227-232: the year, month
\* and day of report_time itself under the base URL, which the constructor
\* has stripped of its final "/" (line 32).
get_report_url(base_url, report_time) ==
    LET own == DateOf(report_time)
        date_path == ZeroPad(own.year, 4) \o <<"/">> \o ZeroPad(own.month, 2) \o <<"/">>
                        \o ZeroPad(own.day, 2) \o <<"/">>
    IN IF base_url # <<>> THEN base_url \o <<"/">> \o date_path ELSE date_path

\* report_time.astimezone(EST).strftime("%H:%M EST")
strftime_batch(report_time) ==
    ZeroPad(HourOf(astimezone_EST(report_time)), 2) \o <<":">> \o ZeroPad(0, 2) \o <<" EST">>

\* report_time.astimezone(EST).strftime("%b %d, %Y %H:%M EST")
strftime_meta(report_time) ==
    LET est == DateOf(astimezone_EST(report_time))
    IN <<MonthAbbr[est.month], " ">> \o ZeroPad(est.day, 2) \o <<", ">>
       \o ZeroPad(est.year, 4) \o <<" ">> \o strftime_batch(report_time)

\* The day directories the model's runs can create.
DayDirs == {_get_date_dir(t) : t \in Times}

(***************************************************************************)
(* ReportGenerator.generate_daily_index                                     *)
(***************************************************************************)
\* analysis_map.get(slug) serialized: <<>> for None, else <<the analysis text>>.
\* The dict comprehension keeps the last analysis of a slug.
serialize_analysis(analyses, slug) ==
    LET hits == {i \in 1..Len(analyses) : analyses[i].page_slug = slug}
    IN IF hits = {} THEN <<>>
       ELSE <<analyses[CHOOSE i \in hits : \A j \in hits : j <= i].analysis>>

\* The page entry of one diff (reporter.py lines 120-133).
PageEntry(d, analyses) ==
    LET source_id == IF d.source_id = <<>> THEN <<"unknown">> ELSE d.source_id
        source_name == IF d.source_name = <<>> THEN source_id ELSE d.source_name
    IN [slug |-> d.page_slug, source_id |-> source_id, source_name |-> source_name,
        summary |-> d.summary, added |-> d.added_lines, removed |-> d.removed_lines,
        analysis |-> serialize_analysis(analyses, d.page_slug)]

AddToSource_newgroup(groups, e) ==
    Append(groups, [id |-> e.source_id, pages |-> <<e>>])

\* pages_by_source after one more entry: appended to the list of its source,
\* a new source going to the end of the dict.
AddToSource(groups, e) ==
    IF \E i \in 1..Len(groups) : groups[i].id = e.source_id
    THEN [i \in 1..Len(groups) |->
            IF groups[i].id = e.source_id
            THEN [groups[i] EXCEPT !.pages = Append(@, e)]
            ELSE groups[i]]
    ELSE Append(groups, [id |-> e.source_id, pages |-> <<e>>])

IncludesDiff_all(d) == TRUE

\* Line 118: a diff without changes is skipped.
IncludesDiff(d) == d.has_changes

RECURSIVE pages_by_source(_, _, _)
\* The loop of lines 116-134 over diffs[k..], from the dict built so far.
pages_by_source(diffs, analyses, groups) ==
    IF diffs = <<>> THEN groups
    ELSE pages_by_source(Tail(diffs), analyses,
            IF IncludesDiff(Head(diffs))
            THEN AddToSource(groups, PageEntry(Head(diffs), analyses))
            ELSE groups)

RECURSIVE Flatten(_)
Flatten(lists) == IF lists = <<>> THEN <<>> ELSE Head(lists) \o Flatten(Tail(lists))

\* The batch of one run (lines 136-149).  The optional "analysis" key is the
\* sequence analysis: empty when batch_analysis is None or "".
NewBatch(diffs, report_time, analyses, batch_analysis) ==
    LET groups == pages_by_source(diffs, analyses, <<>>)
    IN [timestamp |-> strftime_batch(report_time),
        sources |-> [i \in 1..Len(groups) |->
                        [id |-> groups[i].id,
                         name |-> groups[i].pages[1].source_name,
                         pages |-> groups[i].pages]],
        pages |-> Flatten([i \in 1..Len(groups) |-> groups[i].pages]),
        analysis |-> IF batch_analysis # <<>> /\ batch_analysis[1] # <<>>
                     THEN batch_analysis ELSE <<>>]

\* Lines 101-105: the batches of meta.json, [] when there is no meta.json.
LoadBatches(m) == IF m # <<>> THEN m[1].batches ELSE <<>>

AppendBatch_prepend(batches, new_batch) == <<new_batch>> \o batches

AppendBatch_restart(batches, new_batch) == <<new_batch>>

\* Line 150: batches.append(new_batch)
AppendBatch(batches, new_batch) == Append(batches, new_batch)

RECURSIVE SumPages(_)
SumPages(batches) ==
    IF batches = <<>> THEN 0 ELSE Len(Head(batches).pages) + SumPages(Tail(batches))

TotalChanges_lastonly(batches) == Len(batches[Len(batches)].pages)

\* Line 153: sum(len(b.get("pages", [])) for b in batches)
TotalChanges(batches) == SumPages(batches)

\* list(reversed(batches))
Reversed(s) == [i \in 1..Len(s) |-> s[Len(s) + 1 - i]]

\* What daily_index.html is rendered from (lines 155-160).
DailyTemplateArgs(batches, report_time) ==
    [date |-> strftime_date(report_time),
     batches |-> Reversed(batches),
     total_changes |-> TotalChanges(batches)]

\* What is written to meta.json (lines 166-174).
MetaJson(batches, report_time) ==
    [timestamp |-> strftime_meta(report_time),
     count |-> TotalChanges(batches),
     batches |-> batches]

(***************************************************************************)
(* Paths below docs_dir and reports_dir                                     *)
(***************************************************************************)
SlugPath_basename(root, slug, suffix) ==
    [dirs |-> root, name |-> <<slug[Len(slug)], suffix>>]

\* root / f"{slug}{suffix}": pathlib splits the slug at its separators, so the
\* directories of the slug nest below the root and the file is named after the
\* last component.  A path is its directories from reports_dir or docs_dir
\* down and its file name, <<stem, suffix>>.
SlugPath(root, slug, suffix) ==
    [dirs |-> root \o [i \in 1..(Len(slug) - 1) |-> <<slug[i]>>],
     name |-> <<slug[Len(slug)], suffix>>]

\* day_dir.glob("*.html") without index.html (line 208): the page files that
\* lie in the day directory itself.
GlobHtml(files, dir) ==
    {q \in DOMAIN files : q.dirs = dir /\ q.name[2] = ".html"}

(***************************************************************************)
(* ReportGenerator.update_main_index                                        *)
(***************************************************************************)
DigitOrd(c) == CHOOSE i \in 1..10 : DigitChar[i] = c

\* a < b for two strings of digits, as Python compares strings.
StrLess(a, b) ==
    \E k \in 1..(Len(a) + 1) :
        /\ \A i \in 1..(k-1) : i <= Len(b) /\ a[i] = b[i]
        /\ k <= Len(b)
        /\ (k = Len(a) + 1 \/ DigitOrd(a[k]) < DigitOrd(b[k]))

RECURSIVE sorted_forward(_)
sorted_forward(S) ==
    IF S = {} THEN <<>>
    ELSE LET low == CHOOSE x \in S : \A y \in S : y = x \/ StrLess(x, y)
         IN <<low>> \o sorted_forward(S \ {low})

RECURSIVE sorted_reverse(_)
\* sorted(names, reverse=True)
sorted_reverse(S) ==
    IF S = {} THEN <<>>
    ELSE LET top == CHOOSE x \in S : \A y \in S : y = x \/ StrLess(y, x)
         IN <<top>> \o sorted_reverse(S \ {top})

\* A day directory exists once a file was written into it.
DirExists(metas, indexes, dir) == metas[dir] # <<>> \/ indexes[dir] # <<>>

\* One entry of the main index (lines 193-218); files are the page artifacts
\* below reports_dir.
ReportEntry(metas, files, dir) ==
    LET report_date == dir[1] \o <<"-">> \o dir[2] \o <<"-">> \o dir[3]
    IN [date |-> report_date,
        timestamp |-> IF metas[dir] # <<>> THEN metas[dir][1].timestamp ELSE report_date,
        path |-> dir[1] \o <<"/">> \o dir[2] \o <<"/">> \o dir[3] \o <<"/">>,
        count |-> IF metas[dir] # <<>> THEN metas[dir][1].count
                  ELSE Cardinality(GlobHtml(files, dir))]

\* The reports list of lines 180-218: years, months and days each scanned in
\* reverse sorted order; a day is listed when its index.html exists.
ScanReports(metas, indexes, files) ==
    LET dirs == {d \in DOMAIN metas : DirExists(metas, indexes, d)}
        years == sorted_reverse({d[1] : d \in dirs})
        months(y) == sorted_reverse({d[2] : d \in {e \in dirs : e[1] = y}})
        days(y, m) == sorted_reverse({d[3] : d \in {e \in dirs : e[1] = y /\ e[2] = m}})
        listed(y, m) ==
            LET ds == days(y, m)
            IN Flatten([i \in 1..Len(ds) |->
                  IF indexes[<<y, m, ds[i]>>] # <<>>
                  THEN <<ReportEntry(metas, files, <<y, m, ds[i]>>)>> ELSE <<>>])
        of_year(y) ==
            LET ms == months(y)
            IN Flatten([i \in 1..Len(ms) |-> listed(y, ms[i])])
    IN Flatten([i \in 1..Len(years) |-> of_year(years[i])])

update_main_index_backfill(tree) ==
    [tree EXCEPT
        !.main_index = <<ScanReports(tree.meta, tree.daily_index, tree.artifacts)>>,
        !.meta = [d \in DOMAIN tree.meta |->
                    IF tree.meta[d] = <<>> /\ tree.daily_index[d] # <<>>
                    THEN <<[timestamp |-> ReportEntry(tree.meta, tree.artifacts, d).timestamp,
                            count |-> ReportEntry(tree.meta, tree.artifacts, d).count,
                            batches |-> <<>>]>>
                    ELSE tree.meta[d]]]

\* update_main_index (lines 178-225) on the files below reports_dir: the
\* reports are scanned and index.html of the reports root is the one file
\* written (lines 220-224).
update_main_index(tree) ==
    [tree EXCEPT
        !.main_index = <<ScanReports(tree.meta, tree.daily_index, tree.artifacts)>>]

(***************************************************************************)
(* Inputs of the reporter                                                   *)
(***************************************************************************)
\* The most diffs handed to one generate_daily_index call.
MaxDiffs == 1

\* The most generate_daily_index calls of a behaviour.
MaxCalls == 2

SourceA == [id |-> <<"claude-code">>, name |-> <<"Claude Code">>]
\* A diff that DocMonitor.run has not tagged carries no source.
NoSource == [id |-> <<>>, name |-> <<>>]

TagSource(d, source) == [d EXCEPT !.source_id = source.id, !.source_name = source.name]

\* The diffs a caller may hand over: with and without changes, tagged or not.
ReportDiffs ==
    { TagSource(compute_diff(<<"overview">>, <<"a">>, <<"a">>), SourceA),
      TagSource(compute_diff(<<"overview">>, <<"a">>, <<"a", "\n", "b">>), SourceA),
      TagSource(compute_diff(<<"api", "messages">>, <<"a">>, <<"a", "\n">>), NoSource) }

DiffLists == UNION {[1..k -> ReportDiffs] : k \in 0..MaxDiffs}

AnalysisLists == {<<>>}

BatchNarratives == {<<>>, << <<"narrative">> >>}

(***************************************************************************)
(* Spec: the report generator, called run after run                         *)
(***************************************************************************)
\* The variables of the diff engine while it is not in use.
DifferIdle ==
    /\ page_slug = <<>>
    /\ old_content = <<>>
    /\ new_content = <<>>
    /\ diff = <<>>

\* The variables of the normalizer while it is not in use.
NormalizerIdle ==
    /\ raw = <<>>
    /\ normalized = <<>>

\* An empty reports directory, at the first time of the model.
ReporterInit ==
    /\ now = 0
    /\ meta = [d \in DayDirs |-> <<>>]
    /\ daily_index = [d \in DayDirs |-> <<>>]
    /\ main_index = <<>>
    /\ calls = [d \in DayDirs |-> <<>>]

RECURSIVE SumLen(_, _)
SumLen(f, S) ==
    IF S = {} THEN 0
    ELSE LET x == CHOOSE y \in S : TRUE IN Len(f[x]) + SumLen(f, S \ {x})

CallCount == SumLen(calls, DayDirs)

\* The processes that may be inside generate_daily_index at the same time.
Procs == {1, 2}

NoCall ==
    [pc |-> "idle", id |-> 0, diffs |-> <<>>, report_time |-> 0,
     batch_analysis |-> <<>>, batches |-> <<>>, overlaps |-> 0]

ProcsIdle == proc = [p \in Procs |-> NoCall]

\* The pages of the monitored source, in the order of its pages file.
RunPages == << <<"overview">>, <<"api", "messages">> >>

\* No snapshot stored, no artifact written, no run made.
MonitorInit ==
    /\ docs = [path \in {} |-> <<>>]
    /\ artifacts = [path \in {} |-> <<>>]
    /\ result = <<>>
    /\ runs = 0
    /\ last_run = <<>>
    /\ cli = <<>>
    /\ analysed = <<>>
    /\ retry = <<>>
    /\ pool = <<>>
    /\ notice = <<>>

Init == DifferIdle /\ NormalizerIdle /\ ReporterInit /\ ProcsIdle /\ MonitorInit

\* generate_daily_index(diffs, report_time, analyses, batch_analysis), lines
\* 96-176: read meta.json, append the batch of this run, write index.html and
\* meta.json.
generate_daily_index(diffs, report_time, analyses, batch_analysis) ==
    LET date_dir == _get_date_dir(report_time)
        batches == AppendBatch(LoadBatches(meta[date_dir]),
                               NewBatch(diffs, report_time, analyses, batch_analysis))
    IN /\ daily_index' = [daily_index EXCEPT
                              ![date_dir] = <<DailyTemplateArgs(batches, report_time)>>]
       /\ meta' = [meta EXCEPT ![date_dir] = <<MetaJson(batches, report_time)>>]
       /\ calls' = [calls EXCEPT ![date_dir] = Append(@, report_time)]

\* A caller (the command line, a test) calls generate_daily_index at the
\* current time with one of the given inputs; the clock never runs backwards.
DailyIndexCall(lists, narratives, max_calls) ==
    /\ CallCount < max_calls
    /\ \E t \in Times, diffs \in lists, analyses \in AnalysisLists,
          batch_analysis \in narratives :
          /\ t >= now
          /\ now' = t
          /\ generate_daily_index(diffs, t, analyses, batch_analysis)

GenerateDailyIndex ==
    /\ DailyIndexCall(DiffLists, BatchNarratives, MaxCalls)
    /\ UNCHANGED <<main_index, differ_vars, norm_vars, proc, run_vars>>

Next == GenerateDailyIndex

Spec == Init /\ [][Next]_vars

(***************************************************************************)
(* SpecIndex: daily reports of several days and the main index              *)
(***************************************************************************)
\* The most daily reports written before the main index is rebuilt.
MaxReports == 3

\* One changed page, or none.
IndexDiffLists ==
    {<<>>, <<TagSource(compute_diff(<<"overview">>, <<"a">>, <<"a", "\n", "b">>), SourceA)>>}

DailyReport ==
    /\ DailyIndexCall(IndexDiffLists, {<<>>}, MaxReports)
    /\ UNCHANGED <<main_index, differ_vars, norm_vars, proc, run_vars>>

\* update_main_index(), lines 178-225.
UpdateMainIndex ==
    /\ LET tree == update_main_index([meta |-> meta, daily_index |-> daily_index,
                                      artifacts |-> artifacts, main_index |-> main_index])
       IN /\ main_index' = tree.main_index
          /\ meta' = tree.meta
          /\ daily_index' = tree.daily_index
          /\ artifacts' = tree.artifacts
    /\ UNCHANGED <<now, calls, differ_vars, norm_vars, proc, docs, result, runs, last_run, cli, analysed, fetch_vars>>

NextIndex == DailyReport \/ UpdateMainIndex

SpecIndex == Init /\ [][NextIndex]_vars

(***************************************************************************)
(* SpecRace: generate_daily_index run by two processes at once              *)
(***************************************************************************)
Other(p) == CHOOSE q \in Procs : q # p

\* What a racing call is handed: no diff, or one changed page of either kind.
RaceDiffLists == {<<>>} \cup {<<d>> : d \in {e \in ReportDiffs : e.has_changes}}

\* A process enters generate_daily_index (line 96) with its arguments, the
\* diffs among the given lists.
RaceCallWith(p, lists, max_calls) ==
    /\ proc[p].pc \in {"idle", "done"}
    /\ CallCount < max_calls
    /\ \E t \in Times, diffs \in lists, batch_analysis \in {<<>>} :
          /\ t >= now
          /\ now' = t
          /\ calls' = [calls EXCEPT ![_get_date_dir(t)] = Append(@, t)]
          /\ proc' = [proc EXCEPT ![p] =
                [pc |-> "called", id |-> CallCount + 1, diffs |-> diffs,
                 report_time |-> t, batch_analysis |-> batch_analysis,
                 batches |-> <<>>, overlaps |-> 0]]
    /\ UNCHANGED <<meta, daily_index, main_index, differ_vars, norm_vars, run_vars>>

RaceCall(p) == RaceCallWith(p, RaceDiffLists, MaxCalls)

\* Lines 99-105: it reads the batches of meta.json.  overlaps names the call
\* of the other process when that one has read meta.json and not yet written it.
RaceLoad(p) ==
    /\ proc[p].pc = "called"
    /\ proc' = [proc EXCEPT
          ![p].pc = "loaded",
          ![p].batches = LoadBatches(meta[_get_date_dir(proc[p].report_time)]),
          ![p].overlaps =
              IF /\ proc[Other(p)].pc \in {"loaded", "indexed"}
                 /\ _get_date_dir(proc[Other(p)].report_time)
                        = _get_date_dir(proc[p].report_time)
              THEN proc[Other(p)].id ELSE 0]
    /\ UNCHANGED <<now, meta, daily_index, main_index, calls, differ_vars, norm_vars, run_vars>>

BatchesToWrite_reread(loaded, on_disk, new_batch) == AppendBatch(on_disk, new_batch)

\* Lines 150-171: the list written is the list read at the start of the call
\* with the new batch appended, whatever meta.json holds by now.
BatchesToWrite(loaded, on_disk, new_batch) == AppendBatch(loaded, new_batch)

RaceBatches(p) ==
    BatchesToWrite(proc[p].batches,
                   LoadBatches(meta[_get_date_dir(proc[p].report_time)]),
                   NewBatch(proc[p].diffs, proc[p].report_time, <<>>,
                            proc[p].batch_analysis))

\* Lines 107-163: it appends its batch to the list it read and writes index.html.
RaceWriteIndex(p) ==
    /\ proc[p].pc = "loaded"
    /\ daily_index' = [daily_index EXCEPT ![_get_date_dir(proc[p].report_time)] =
                          <<DailyTemplateArgs(RaceBatches(p), proc[p].report_time)>>]
    /\ proc' = [proc EXCEPT ![p].pc = "indexed"]
    /\ UNCHANGED <<now, meta, main_index, calls, differ_vars, norm_vars, run_vars>>

\* Lines 165-176: it writes meta.json and returns.
RaceWriteMeta(p) ==
    /\ proc[p].pc = "indexed"
    /\ meta' = [meta EXCEPT ![_get_date_dir(proc[p].report_time)] =
                   <<MetaJson(RaceBatches(p), proc[p].report_time)>>]
    /\ proc' = [proc EXCEPT ![p].pc = "done"]
    /\ UNCHANGED <<now, daily_index, main_index, calls, differ_vars, norm_vars, run_vars>>

NextRace ==
    \E p \in Procs : RaceCall(p) \/ RaceLoad(p) \/ RaceWriteIndex(p) \/ RaceWriteMeta(p)

SpecRace == Init /\ [][NextRace]_vars

(***************************************************************************)
(* Content normalizer: normalize_html_content                               *)
(***************************************************************************)
\* The most segments (tags and texts) of a document handed to the normalizer.
MaxTags == 2

\* The characters of an attribute name.
AttrName == [h |-> <<"h">>, d |-> <<"d">>, nonce |-> <<"n", "o", "n", "c", "e">>]

\* name="value" after a space, as in '<link href="/s.css" nonce="AAA==" />'.
RenderAttr(a) == <<" ">> \o AttrName[a.name] \o <<"=", "\"">> \o a.value \o <<"\"">>

\* A tag with its attributes, or a piece of text.
RenderSegment(seg) ==
    IF seg.tag
    THEN <<"<", "a">> \o Flatten([i \in 1..Len(seg.attrs) |-> RenderAttr(seg.attrs[i])])
         \o <<">">>
    ELSE seg.text

\* The text of a document.
Render(doc) == Flatten([i \in 1..Len(doc) |-> RenderSegment(doc[i])])

\* The values a server gives a nonce, and the value of the other attributes.
NonceValues == {<<"1">>, <<"2", "=">>}
OtherValue == <<"x">>

\* The attribute names of the tags of the model's documents.
TagShapes == {<<>>, <<"h">>, <<"nonce">>, <<"h", "nonce">>, <<"nonce", "d">>}

Tags ==
    UNION {{[tag |-> TRUE, text |-> <<>>,
             attrs |-> [i \in 1..Len(sh) |-> [name |-> sh[i], value |-> v[i]]]] :
               v \in {w \in [1..Len(sh) -> NonceValues \cup {OtherValue}] :
                         \A i \in 1..Len(sh) : (sh[i] = "nonce") = (w[i] \in NonceValues)}} :
           sh \in TagShapes}

\* Text without markup, as in "# Hello\n\nThis is markdown content."
PlainTexts == {<<"t">>, <<"#", " ", "n", "\n">>}

Segments == Tags \cup {[tag |-> FALSE, text |-> t, attrs |-> <<>>] : t \in PlainTexts}

HtmlDocs == UNION {[1..k -> Segments] : k \in 1..MaxTags}

\* The same document but for the values of its nonce attributes.
SameExceptNonce(a, b) ==
    /\ Len(a) = Len(b)
    /\ \A i \in 1..Len(a) :
          /\ a[i].tag = b[i].tag
          /\ a[i].text = b[i].text
          /\ Len(a[i].attrs) = Len(b[i].attrs)
          /\ \A k \in 1..Len(a[i].attrs) :
                /\ a[i].attrs[k].name = b[i].attrs[k].name
                /\ a[i].attrs[k].name # "nonce" => a[i].attrs[k].value = b[i].attrs[k].value

Whitespace == {" ", "\n", "\t"}

RECURSIVE LeadingSpace(_)
\* The number of whitespace characters a text starts with.
LeadingSpace(s) ==
    IF s # <<>> /\ Head(s) \in Whitespace THEN 1 + LeadingSpace(Tail(s)) ELSE 0

NonceOpen == <<"n", "o", "n", "c", "e", "=", "\"">>

\* The length of the nonce attribute a text starts with: whitespace, nonce=",
\* a value without quotes and the closing quote; 0 when it starts with none.
NonceMatch(s) ==
    LET ws == LeadingSpace(s)
        start == ws + Len(NonceOpen)
    IN IF ws = 0 \/ Len(s) < start \/ SubSeq(s, ws + 1, start) # NonceOpen THEN 0
       ELSE LET closes == {i \in (start + 1)..Len(s) : s[i] = "\""}
            IN IF closes = {} THEN 0 ELSE CHOOSE i \in closes : \A j \in closes : i <= j

RECURSIVE normalize_html_content_first(_)
normalize_html_content_first(s) ==
    IF s = <<>> THEN <<>>
    ELSE LET m == NonceMatch(s)
         IN IF m > 0 THEN SubSeq(s, m + 1, Len(s))
            ELSE <<Head(s)>> \o normalize_html_content_first(Tail(s))

RECURSIVE normalize_html_content(_)
\* normalize_html_content(text): every nonce attribute is removed with the
\* whitespace before it; the rest of the text, a text without markup
\* included, stays as it is.
normalize_html_content(s) ==
    IF s = <<>> THEN <<>>
    ELSE LET m == NonceMatch(s)
         IN IF m > 0 THEN normalize_html_content(SubSeq(s, m + 1, Len(s)))
            ELSE <<Head(s)>> \o normalize_html_content(Tail(s))

(***************************************************************************)
(* SpecRun: DocMonitor.run on fetched pages, and the daily index of its diffs *)
(***************************************************************************)
\* The most runs of a behaviour: one for each call of generate_daily_index.
MaxRuns == MaxCalls

\* The texts a fetch may return.
FetchTexts == {<<>>, <<"a">>, <<"a", "\r", "\n", "b">>}

\* FetchResult (fetcher.py lines 15-26); content and error are optional.
FetchResult(slug, content, status_code, error) ==
    [page_slug |-> slug, content |-> content, status_code |-> status_code, error |-> error]

is_success(r) == r.status_code = 200 /\ r.content # <<>>

\* What fetch_all may return for a page: its text, or the failure of
\* fetch_page for a status other than 200.
FetchOutcomes(slug, texts) ==
    {FetchResult(slug, <<c>>, 200, <<>>) : c \in texts}
    \cup {FetchResult(slug, <<>>, 500, << <<"HTTP 500">> >>)}

RECURSIVE read_text(_)
\* Path.read_text(): the file is read in text mode, where "\r\n" and "\r"
\* both come back as "\n".
read_text(written) ==
    IF written = <<>> THEN <<>>
    ELSE IF Head(written) = "\r"
         THEN <<"\n">> \o read_text(SubSeq(written, BreakLen(written, 1) + 1, Len(written)))
         ELSE <<Head(written)>> \o read_text(Tail(written))

\* Path.write_text(content) on a POSIX system: "\n" stays "\n", and the
\* other characters are written as they are.
write_text(content) == content

\* load_stored_content (main.py lines 102-107): <<the text of <slug>.md>>, or
\* <<>> for None when the file does not exist.
load_stored_content(store, slug) ==
    LET path == SlugPath(<<>>, slug, ".md")
    IN IF path \in DOMAIN store THEN <<read_text(store[path])>> ELSE <<>>

\* load_stored_content(slug) or "": the stored text, "" when there is none.
StoredOrEmpty(store, slug) ==
    LET stored == load_stored_content(store, slug)
    IN IF stored = <<>> THEN <<>> ELSE stored[1]

save_content_nowrite(store, slug, content) == store

\* save_content (lines 109-115): the text is written to docs_dir/<slug>.md,
\* its directories created.
save_content(store, slug, content) ==
    LET path == SlugPath(<<>>, slug, ".md")
    IN [q \in (DOMAIN store) \cup {path} |->
           IF q = path THEN write_text(content) ELSE store[q]]

NewRunResult_nototal(source, pages) ==
    [source_id |-> source.id, source_name |-> source.name,
     total_pages |-> 0, changed_pages |-> 0, failed_pages |-> 0,
     diffs |-> <<>>, analyses |-> <<>>, errors |-> <<>>]

\* SourceRunResult (main.py lines 29-40) as run() creates it.
NewRunResult(source, pages) ==
    [source_id |-> source.id, source_name |-> source.name,
     total_pages |-> Len(pages), changed_pages |-> 0, failed_pages |-> 0,
     diffs |-> <<>>, analyses |-> <<>>, errors |-> <<>>]

CollectsDiff_always(d) == TRUE

\* Line 155: only a diff with changes is collected and saved.
CollectsDiff(d) == d.has_changes

\* One pass of the loop of lines 142-161 for a fetch result, on the pair of
\* the result so far and the snapshot store.
RunPage(st, source, fr) ==
    IF ~is_success(fr)
    THEN [st EXCEPT !.result.failed_pages = @ + 1,
                    !.result.errors = Append(@, fr.page_slug \o <<": ">> \o fr.error[1])]
    ELSE LET d == compute_diff(fr.page_slug, StoredOrEmpty(st.docs, fr.page_slug),
                               fr.content[1])
         IN IF CollectsDiff(d)
            THEN [st EXCEPT !.result.changed_pages = @ + 1,
                            !.result.diffs = Append(@, TagSource(d, source)),
                            !.docs = save_content(@, fr.page_slug, fr.content[1])]
            ELSE st

RECURSIVE RunLoop_break(_, _, _)
RunLoop_break(st, source, fetch_results) ==
    IF fetch_results = <<>> THEN st
    ELSE IF ~is_success(Head(fetch_results))
         THEN RunPage(st, source, Head(fetch_results))
         ELSE RunLoop_break(RunPage(st, source, Head(fetch_results)), source,
                            Tail(fetch_results))

RECURSIVE RunLoop(_, _, _)
\* for fetch_result in fetch_results (line 142).
RunLoop(st, source, fetch_results) ==
    IF fetch_results = <<>> THEN st
    ELSE RunLoop(RunPage(st, source, Head(fetch_results)), source, Tail(fetch_results))

\* report_time.astimezone(EST).strftime("%Y-%m-%d %H:%M:%S EST")
strftime_page(report_time) ==
    LET est == DateOf(astimezone_EST(report_time))
    IN ZeroPad(est.year, 4) \o <<"-">> \o ZeroPad(est.month, 2) \o <<"-">>
       \o ZeroPad(est.day, 2) \o <<" ">>
       \o ZeroPad(HourOf(astimezone_EST(report_time)), 2) \o <<":">> \o ZeroPad(0, 2)
       \o <<":">> \o ZeroPad(0, 2) \o <<" EST">>

\* The path of a page artifact below reports_dir (line 83): the day directory,
\* the source id, and the slug with its directories, ".html" added to its
\* last component.
ArtifactPath(d, report_time) ==
    SlugPath(_get_date_dir(report_time)
                \o <<IF d.source_id = <<>> THEN <<"unknown">> ELSE d.source_id>>,
             d.page_slug, ".html")

\* What page_diff.html is rendered from (lines 62-80).
PageTemplateArgs(d, report_time, analysis) ==
    LET source_id == IF d.source_id = <<>> THEN <<"unknown">> ELSE d.source_id
    IN [page_slug |-> d.page_slug, source_id |-> source_id,
        source_name |-> IF d.source_name = <<>> THEN source_id ELSE d.source_name,
        summary |-> d.summary, html_diff |-> d.html_diff,
        unified_diff |-> d.unified_diff,
        added_lines |-> d.added_lines, removed_lines |-> d.removed_lines,
        date |-> strftime_date(report_time), timestamp |-> strftime_page(report_time),
        analysis |-> analysis,
        back_to_index |-> [i \in 1..Len(d.page_slug) |-> "../"] \o <<"index.html">>]

\* generate_page_diff (lines 56-86): the artifact is written at its path,
\* replacing what was there.
generate_page_diff(files, d, report_time, analysis) ==
    LET path == ArtifactPath(d, report_time)
    IN [q \in (DOMAIN files) \cup {path} |->
           IF q = path THEN PageTemplateArgs(d, report_time, analysis) ELSE files[q]]

RECURSIVE _generate_reports(_, _, _, _)
\* _generate_reports (main.py lines 171-192): one page artifact per diff.
_generate_reports(files, diffs, analyses, report_time) ==
    IF diffs = <<>> THEN files
    ELSE _generate_reports(
            generate_page_diff(files, Head(diffs), report_time,
                               serialize_analysis(analyses, Head(diffs).page_slug)),
            Tail(diffs), analyses, report_time)

\* DocMonitor.run(pages, generate_reports, report_time), lines 124-169, on the
\* results fetch_all returned for the pages, their texts among the given ones.
\* The fetcher is the one the tests put in place: fetch_all returns a result
\* for each page, in the order of the pages.
RunOn(texts) ==
    /\ runs < MaxRuns
    /\ \E t \in RunHours, generate_reports \in BOOLEAN,
          outcomes \in [1..Len(RunPages) ->
                          UNION {FetchOutcomes(s, texts) : s \in Range(RunPages)}] :
          /\ t >= now
          /\ \A i \in 1..Len(RunPages) : outcomes[i].page_slug = RunPages[i]
          /\ LET st == RunLoop([result |-> NewRunResult(SourceA, RunPages), docs |-> docs],
                               SourceA, outcomes)
             IN /\ docs' = st.docs
                /\ result' = <<st.result>>
                /\ last_run' = <<[generate_reports |-> generate_reports,
                                  report_time |-> t, fetch_results |-> outcomes,
                                  returned |-> TRUE]>>
                /\ artifacts' =
                      IF generate_reports /\ st.result.diffs # <<>>
                      THEN _generate_reports(artifacts, st.result.diffs,
                                             st.result.analyses, t)
                      ELSE artifacts
          /\ now' = t
    /\ runs' = runs + 1
    /\ UNCHANGED <<meta, daily_index, main_index, calls, differ_vars, norm_vars, proc,
                   cli, analysed, fetch_vars>>

Run == RunOn(FetchTexts)

\* A diff without changes, as compute_diff returns it for an unchanged page.
UnchangedDiff == TagSource(compute_diff(<<"overview">>, <<"a">>, <<"a">>), SourceA)

\* What generate_daily_index is handed after a run: the command line hands
\* over the diffs of the run (main.py lines 285-316); a caller of its own may
\* hand over a diff without changes as well.
RunDiffLists ==
    IF result = <<>> THEN {}
    ELSE {result[1].diffs, <<UnchangedDiff>> \o result[1].diffs}

\* generate_daily_index called once after a run, at the report time of the
\* run.
ReportDiffsOfRun ==
    /\ CallCount < runs
    /\ \E diffs \in RunDiffLists : generate_daily_index(diffs, now, <<>>, <<>>)
    /\ UNCHANGED <<now, main_index, differ_vars, norm_vars, proc, run_vars>>

NextRun == Run \/ ReportDiffsOfRun

SpecRun == Init /\ [][NextRun]_vars

(***************************************************************************)
(* SpecNonce: runs on a server that gives every response a nonce of its own *)
(***************************************************************************)
\* '<a h="x" nonce="v">t': the page as the server sends it with the nonce v.
NoncePage(v) ==
    Render(<<[tag |-> TRUE, text |-> <<>>,
              attrs |-> <<[name |-> "h", value |-> OtherValue],
                          [name |-> "nonce", value |-> v]>>],
             [tag |-> FALSE, text |-> <<"t">>, attrs |-> <<>>]>>)

NonceFetchTexts == {NoncePage(v) : v \in NonceValues}

RunNonce == RunOn(NonceFetchTexts)

NextNonce == RunNonce

SpecNonce == Init /\ [][NextNonce]_vars

(***************************************************************************)
(* The analyzer (analyzer.py)                                               *)
(***************************************************************************)
\* AnalysisResult (lines 20-26).
AnalysisResult(slug, analysis, reasoning) ==
    [page_slug |-> slug, analysis |-> analysis, reasoning |-> reasoning]

\* The analyzers a configuration can build: complete, without API key,
\* without base URL.
AnalyzerConfigs ==
    {[enabled |-> TRUE, api_key |-> key, model |-> << <<"m">> >>, base_url |-> url] :
        key \in {<<>>, << <<"k">> >>}, url \in {<<>>, << <<"u">> >>}}
    \ {[enabled |-> TRUE, api_key |-> <<>>, model |-> << <<"m">> >>, base_url |-> <<>>]}

\* DiffAnalyzer.enabled (lines 53-61).
enabled(analyzer) ==
    /\ analyzer.api_key # <<>>
    /\ analyzer.api_key[1] # <<>>
    /\ analyzer.model # <<>>
    /\ analyzer.base_url # <<>>

\* What _call_api does with a prompt: it raises, or returns the content and
\* the reasoning of the response.
ApiOutcomes ==
    {[raises |-> TRUE, message |-> <<"t", "i", "m", "e", "o", "u", "t">>,
      content |-> <<>>, reasoning |-> <<>>],
     [raises |-> FALSE, message |-> <<>>, content |-> <<>>, reasoning |-> <<>>],
     [raises |-> FALSE, message |-> <<>>, content |-> <<" ", "o", "k", "\n">>,
      reasoning |-> <<>>]}

\* The characters str.strip() removes.
StripChars == {" ", "\t", "\n", "\r"}

RECURSIVE lstrip(_)
lstrip(s) == IF s # <<>> /\ Head(s) \in StripChars THEN lstrip(Tail(s)) ELSE s

RECURSIVE rstrip(_)
rstrip(s) ==
    IF s # <<>> /\ s[Len(s)] \in StripChars THEN rstrip(SubSeq(s, 1, Len(s) - 1)) ELSE s

\* str.strip()
strip(s) == rstrip(lstrip(s))

\* str(e)[:100] (lines 93 and 135)
ErrorPrefixLen == 100

AnalysisError == <<"A", "n", "a", "l", "y", "s", "i", "s", " ", "e", "r", "r", "o", "r",
                   ":", " ">>

EmptyResponse == <<"Analysis returned empty response.">>

\* The try block of analyze_diff and analyze_batch (lines 72-93, 119-135):
\* an exception of the API call becomes the error placeholder, a response
\* without content the empty-response placeholder.
AnalysisOf(slug, api) ==
    IF api.raises
    THEN AnalysisResult(slug,
                        AnalysisError
                           \o SubSeq(api.message, 1,
                                     IF Len(api.message) < ErrorPrefixLen
                                     THEN Len(api.message) ELSE ErrorPrefixLen),
                        <<>>)
    ELSE IF api.content = <<>>
         THEN AnalysisResult(slug, EmptyResponse, <<>>)
         ELSE AnalysisResult(slug, strip(api.content), strip(api.reasoning))

\* analyze_diff (lines 63-93): None, or the AnalysisResult of the page.
analyze_diff(analyzer, d, api) ==
    IF ~enabled(analyzer) THEN <<>>
    ELSE IF ~d.has_changes THEN <<>>
    ELSE <<AnalysisOf(d.page_slug, api)>>

\* analyze_batch (lines 108-135): None, or the AnalysisResult "__batch__".
analyze_batch(analyzer, diffs, api) ==
    IF ~enabled(analyzer) THEN <<>>
    ELSE IF \A i \in 1..Len(diffs) : ~diffs[i].has_changes THEN <<>>
    ELSE <<AnalysisOf(<<"__batch__">>, api)>>

(***************************************************************************)
(* SpecCli: the command line (main.py cli) and the analyzer called on its  *)
(* own                                                                      *)
(***************************************************************************)
\* The parameters of DocumentFetcher.__init__ (fetcher.py lines 32-36) and of
\* ReportGenerator.generate_daily_index (reporter.py lines 88-94), self left
\* out: their names in order, and those without a default.
DocumentFetcherParams == [names |-> <<"source", "timeout">>, required |-> {"source"}]

GenerateDailyIndexParams ==
    [names |-> <<"diffs", "report_time", "analyses", "batch_analysis">>,
     required |-> {"diffs", "report_time"}]

\* The arguments run() constructs its fetcher with (main.py lines 131-135),
\* and those the command line calls generate_daily_index with (lines 308-314).
DocumentFetcherCall ==
    [positional |-> 0, keywords |-> {"base_url", "language", "timeout"}]

GenerateDailyIndexCall ==
    [positional |-> 2, keywords |-> {"analyses", "batch_analysis", "batch_reasoning"}]

\* A call binds to a signature when it has no more positional arguments than
\* parameters, each keyword names a parameter not given by position, and
\* every parameter without default is given; otherwise it raises TypeError.
Binds(call, params) ==
    LET by_position == {params.names[i] :
                           i \in 1..(IF call.positional < Len(params.names)
                                     THEN call.positional ELSE Len(params.names))}
    IN /\ call.positional <= Len(params.names)
       /\ call.keywords \subseteq (Range(params.names) \ by_position)
       /\ params.required \subseteq (by_position \cup call.keywords)

\* What the server returns to the command line for a page.
CliFetchTexts == {<<"a">>}

\* The diff lists and diffs the analyzer is called with.
AnalyzedDiffLists == IndexDiffLists \cup {<<UnchangedDiff>>}

\* analyze_diff called as the tests call it.
AnalyzeDiff ==
    /\ \E analyzer \in AnalyzerConfigs, api \in ApiOutcomes,
          diffs \in AnalyzedDiffLists \ {<<>>} :
          analysed' = <<[call |-> "analyze_diff", analyzer |-> analyzer, api |-> api,
                         diffs |-> diffs,
                         returned |-> analyze_diff(analyzer, diffs[1], api)]>>
    /\ UNCHANGED <<differ_vars, norm_vars, report_vars, proc, docs, artifacts, result,
                   runs, last_run, cli, fetch_vars>>

\* analyze_batch called as the tests call it.
AnalyzeBatch ==
    /\ \E analyzer \in AnalyzerConfigs, api \in ApiOutcomes, diffs \in AnalyzedDiffLists :
          analysed' = <<[call |-> "analyze_batch", analyzer |-> analyzer, api |-> api,
                         diffs |-> diffs,
                         returned |-> analyze_batch(analyzer, diffs, api)]>>
    /\ UNCHANGED <<differ_vars, norm_vars, report_vars, proc, docs, artifacts, result,
                   runs, last_run, cli, fetch_vars>>

\* cli (main.py lines 212-351) for one source: the run of the monitor with
\* the fetcher it constructs itself, then, when reports are wanted and pages
\* changed, the batch analysis, the daily index and the main index.  A
\* TypeError of a call is caught at lines 348-351 with every other exception
\* and ends the command with exit code 1.  The Telegram notification (lines
\* 319-343) writes none of the files; it is sent when Telegram is configured,
\* --no-notify is not given and pages changed.
Cli ==
    /\ \E t \in RunHours, no_reports \in BOOLEAN, notify \in BOOLEAN,
          analyzer \in AnalyzerConfigs, api \in ApiOutcomes,
          outcomes \in [1..Len(RunPages) ->
                          UNION {FetchOutcomes(s, CliFetchTexts) : s \in Range(RunPages)}] :
          /\ t >= now
          /\ \A i \in 1..Len(RunPages) : outcomes[i].page_slug = RunPages[i]
          /\ LET ran == Binds(DocumentFetcherCall, DocumentFetcherParams)
                 st == RunLoop([result |-> NewRunResult(SourceA, RunPages), docs |-> docs],
                               SourceA, outcomes)
                 files == IF ~no_reports /\ st.result.diffs # <<>>
                          THEN _generate_reports(artifacts, st.result.diffs,
                                                 st.result.analyses, t)
                          ELSE artifacts
                 reports == ran /\ ~no_reports /\ st.result.changed_pages > 0
                 batch_result ==
                     IF analyzer.enabled /\ analyzer.api_key # <<>>
                        /\ analyzer.api_key[1] # <<>> /\ analyzer.model # <<>>
                        /\ analyzer.model[1] # <<>>
                     THEN analyze_batch(analyzer, st.result.diffs, api)
                     ELSE <<>>
                 batch_analysis_text ==
                     IF batch_result = <<>> THEN <<>> ELSE <<batch_result[1].analysis>>
                 indexed == reports /\ Binds(GenerateDailyIndexCall, GenerateDailyIndexParams)
             IN /\ ran => runs < MaxRuns
                /\ docs' = IF ran THEN st.docs ELSE docs
                /\ artifacts' = IF ran THEN files ELSE artifacts
                /\ result' = IF ran THEN <<st.result>> ELSE result
                /\ last_run' = IF ran
                               THEN <<[generate_reports |-> ~no_reports, report_time |-> t,
                                       fetch_results |-> outcomes, returned |-> TRUE]>>
                               ELSE last_run
                /\ runs' = IF ran THEN runs + 1 ELSE runs
                /\ IF indexed
                   THEN /\ generate_daily_index(st.result.diffs, t, <<>>,
                                                batch_analysis_text)
                        /\ main_index' =
                              update_main_index([meta |-> meta',
                                                 daily_index |-> daily_index',
                                                 artifacts |-> artifacts',
                                                 main_index |-> main_index]).main_index
                   ELSE UNCHANGED <<meta, daily_index, calls, main_index>>
                /\ cli' = <<[no_reports |-> no_reports, report_time |-> t,
                             analyzer |-> analyzer, api |-> api,
                             fetch_results |-> outcomes,
                             notified |-> /\ ran /\ (reports => indexed) /\ notify
                                          /\ st.result.changed_pages > 0,
                             exit_code |-> IF ran /\ (reports => indexed) THEN 0 ELSE 1]>>
          /\ now' = t
    /\ UNCHANGED <<differ_vars, norm_vars, proc, analysed, fetch_vars>>

NextCli == Cli \/ AnalyzeDiff \/ AnalyzeBatch

SpecCli == Init /\ [][NextCli]_vars

(***************************************************************************)
(* SpecDisk: DocMonitor.run on a disk that refuses some of its writes       *)
(***************************************************************************)
\* What the server returns for a page in these runs.
DiskFetchTexts == {<<"a">>, <<"b">>}

\* The snapshot files of the pages.
SnapshotPaths == {SlugPath(<<>>, RunPages[i], ".md") : i \in 1..Len(RunPages)}

\* One pass of the loop of lines 142-161 where write_text raises OSError for
\* the snapshots in unwritable: save_content is the last statement of the
\* pass (line 161), after the counters and the diff list were updated, and
\* nothing in run() catches what it raises, so the loop is left.
RunPageOnDisk(st, source, fr, unwritable) ==
    IF st.raised # {} THEN st
    ELSE LET next == RunPage([result |-> st.result, docs |-> st.docs], source, fr)
             saves == next.result.changed_pages > st.result.changed_pages
             path == SlugPath(<<>>, fr.page_slug, ".md")
         IN IF saves /\ path \in unwritable
            THEN [result |-> next.result, docs |-> st.docs, raised |-> {path}]
            ELSE [result |-> next.result, docs |-> next.docs, raised |-> {}]

RECURSIVE RunLoopOnDisk(_, _, _, _)
\* for fetch_result in fetch_results (line 142).
RunLoopOnDisk(st, source, fetch_results, unwritable) ==
    IF fetch_results = <<>> THEN st
    ELSE RunLoopOnDisk(RunPageOnDisk(st, source, Head(fetch_results), unwritable),
                       source, Tail(fetch_results), unwritable)

\* DocMonitor.run (lines 124-169) with the fetcher of the tests, on a disk
\* where the snapshots in unwritable cannot be written and, when
\* reports_readonly, neither can the page artifacts (reporter.py lines 84-85
\* raise for the first of them).  An exception leaves run() without a result.
RunOnDiskWith(texts, disks) ==
    /\ runs < MaxRuns
    /\ \E t \in RunHours, generate_reports \in BOOLEAN, disk \in disks,
          outcomes \in [1..Len(RunPages) ->
                          UNION {FetchOutcomes(s, texts) : s \in Range(RunPages)}] :
          /\ t >= now
          /\ \A i \in 1..Len(RunPages) : outcomes[i].page_slug = RunPages[i]
          /\ LET st == RunLoopOnDisk([result |-> NewRunResult(SourceA, RunPages),
                                      docs |-> docs, raised |-> {}],
                                     SourceA, outcomes, disk.unwritable)
                 reports == st.raised = {} /\ generate_reports /\ st.result.diffs # <<>>
                 raised == IF reports /\ disk.reports_readonly
                           THEN {ArtifactPath(st.result.diffs[1], t)}
                           ELSE st.raised
             IN /\ docs' = st.docs
                /\ result' = IF raised = {} THEN <<st.result>> ELSE <<>>
                /\ artifacts' =
                      IF reports /\ ~disk.reports_readonly
                      THEN _generate_reports(artifacts, st.result.diffs,
                                             st.result.analyses, t)
                      ELSE artifacts
                /\ last_run' = <<[generate_reports |-> generate_reports,
                                  report_time |-> t, fetch_results |-> outcomes,
                                  returned |-> raised = {}, raised |-> raised,
                                  errors |-> st.result.errors]>>
          /\ now' = t
    /\ runs' = runs + 1
    /\ UNCHANGED <<meta, daily_index, main_index, calls, differ_vars, norm_vars, proc,
                   cli, analysed, fetch_vars>>

\* The disks of these runs: any of the snapshots may be unwritable, and the
\* reports.
Disks == [unwritable : SUBSET SnapshotPaths, reports_readonly : BOOLEAN]

RunOnDisk == RunOnDiskWith(DiskFetchTexts, Disks)

NextDisk == RunOnDisk

SpecDisk == Init /\ [][NextDisk]_vars

(***************************************************************************)
(* SpecStop: runs that may stop after a snapshot was saved, each followed   *)
(* by the daily index of the diffs it returned                              *)
(***************************************************************************)
\* What the server returns for a page in these runs.
StopFetchTexts == {<<"a">>, <<"a", "\r", "\n", "b">>}

\* The disks of these runs: writable, or the snapshot of the second page is
\* not, or the reports are not.
StopDisks ==
    {[unwritable |-> {}, reports_readonly |-> FALSE],
     [unwritable |-> {SlugPath(<<>>, RunPages[2], ".md")}, reports_readonly |-> FALSE],
     [unwritable |-> {}, reports_readonly |-> TRUE]}

RunOrStop == RunOnDiskWith(StopFetchTexts, StopDisks)

NextStop == RunOrStop \/ ReportDiffsOfRun

SpecStop == Init /\ [][NextStop]_vars

(***************************************************************************)
(* SpecRetry: fetch_page_with_retry against a server that answers as it     *)
(* likes                                                                    *)
(***************************************************************************)
\* The largest max_retries a caller passes.
MaxRetries == 3

\* The status codes of a response; 0 stands for no response (a timeout or a
\* request error, fetcher.py lines 63-66).
StatusCodes == {0, 200, 304, 400, 499, 500}

\* fetch_page(page_slug), lines 53-66, for a response with the status code.
fetch_page(slug, status_code) ==
    IF status_code = 200 THEN FetchResult(slug, << <<"a">> >>, 200, <<>>)
    ELSE IF status_code = 0
         THEN FetchResult(slug, <<>>, 0, << <<"Connection timed out: ">> >>)
         ELSE FetchResult(slug, <<>>, status_code,
                          << <<"HTTP ">> \o Decimal(status_code) >>)

IsClientError_server(r) == 400 <= r.status_code /\ r.status_code < 600

\* Line 84: a client error is not retried.
IsClientError(r) == 400 <= r.status_code /\ r.status_code < 500

\* 2 ** attempt
RECURSIVE Pow2(_)
Pow2(n) == IF n = 0 THEN 1 ELSE 2 * Pow2(n - 1)

\* A caller calls fetch_page_with_retry(page_slug, max_retries) (line 68).
RetryCall ==
    /\ retry = <<>>
    /\ \E slug \in Range(RunPages), max_retries \in 0..MaxRetries :
          retry' = <<[page_slug |-> slug, max_retries |-> max_retries, attempt |-> 0,
                      pc |-> "loop", results |-> <<>>, sleeps |-> <<>>,
                      returned |-> <<>>]>>
    /\ UNCHANGED <<differ_vars, norm_vars, report_vars, proc, docs, artifacts, result,
                   runs, last_run, cli, analysed, pool, notice>>

\* Line 87: no sleep after the last attempt.
Backoff(r) == r.attempt < r.max_retries - 1

\* One pass of the loop of lines 77-88: the page is fetched; a success or a
\* client error is returned at once, otherwise the call sleeps for
\* backoff_base * 2 ** attempt (in units of backoff_base) unless this was the
\* last attempt.
RetryAttempt ==
    /\ retry # <<>>
    /\ retry[1].pc = "loop"
    /\ retry[1].attempt < retry[1].max_retries
    /\ \E status_code \in StatusCodes :
          LET r == retry[1]
              res == fetch_page(r.page_slug, status_code)
          IN retry' =
                <<IF is_success(res) \/ IsClientError(res)
                  THEN [r EXCEPT !.results = Append(@, res), !.pc = "returned",
                                 !.returned = <<res>>]
                  ELSE IF Backoff(r)
                       THEN [r EXCEPT !.results = Append(@, res), !.pc = "sleeping",
                                      !.sleeps = Append(@, Pow2(r.attempt))]
                       ELSE [r EXCEPT !.results = Append(@, res),
                                      !.attempt = @ + 1]>>
    /\ UNCHANGED <<differ_vars, norm_vars, report_vars, proc, docs, artifacts, result,
                   runs, last_run, cli, analysed, pool, notice>>

\* asyncio.sleep returns and the loop goes on to the next attempt.
RetrySleep ==
    /\ retry # <<>>
    /\ retry[1].pc = "sleeping"
    /\ retry' = <<[retry[1] EXCEPT !.pc = "loop", !.attempt = @ + 1]>>
    /\ UNCHANGED <<differ_vars, norm_vars, report_vars, proc, docs, artifacts, result,
                   runs, last_run, cli, analysed, pool, notice>>

\* Line 91, after the loop: the last result, or "Max retries exceeded" when
\* there is none.
RetryExhausted ==
    /\ retry # <<>>
    /\ retry[1].pc = "loop"
    /\ retry[1].attempt >= retry[1].max_retries
    /\ LET r == retry[1]
       IN retry' =
             <<[r EXCEPT !.pc = "returned",
                         !.returned =
                            IF r.results # <<>> THEN <<r.results[Len(r.results)]>>
                            ELSE <<FetchResult(r.page_slug, <<>>, 0,
                                               << <<"Max retries exceeded">> >>)>>]>>
    /\ UNCHANGED <<differ_vars, norm_vars, report_vars, proc, docs, artifacts, result,
                   runs, last_run, cli, analysed, pool, notice>>

NextRetry == RetryCall \/ RetryAttempt \/ RetrySleep \/ RetryExhausted

\* The event loop runs the coroutine whenever it can go on: a fetch ends with
\* a response or with the timeout of the client, a sleep after its time.
SpecRetry == Init /\ [][NextRetry]_vars /\ WF_vars(NextRetry)

(***************************************************************************)
(* SpecPool: fetch_all, its tasks run by the event loop in any order        *)
(***************************************************************************)
\* The most pages of a request list, and the largest concurrency.
MaxPages == 3

MaxConcurrency == 2

\* The request lists; a page may be listed more than once.
PageLists == UNION {[1..k -> Range(RunPages)] : k \in 0..MaxPages}

\* fetch_all(pages, concurrency, delay) is called (lines 93-109): a semaphore
\* with concurrency permits, and a task fetch_with_limit for each entry of the
\* list, gathered.
FetchAllCall ==
    /\ pool = <<>>
    /\ \E pages \in PageLists, concurrency \in 0..MaxConcurrency, delay \in BOOLEAN :
          pool' = <<[pages |-> pages, concurrency |-> concurrency, delay |-> delay,
                     permits |-> concurrency,
                     pc |-> [i \in 1..Len(pages) |-> "waiting"],
                     fetched |-> [i \in 1..Len(pages) |-> <<>>],
                     returned |-> <<>>]>>
    /\ UNCHANGED <<differ_vars, norm_vars, report_vars, proc, docs, artifacts, result,
                   runs, last_run, cli, analysed, retry, notice>>

HasPermit_always(p) == TRUE

\* A task enters "async with semaphore" when a permit is left.
HasPermit(p) == p.permits > 0

\* Line 103: a task acquires the semaphore and starts to fetch its page.
Acquire(i) ==
    /\ pool # <<>>
    /\ i <= Len(pool[1].pages)
    /\ pool[1].pc[i] = "waiting"
    /\ HasPermit(pool[1])
    /\ pool' = <<[pool[1] EXCEPT !.permits = @ - 1, !.pc[i] = "fetching"]>>
    /\ UNCHANGED <<differ_vars, norm_vars, report_vars, proc, docs, artifacts, result,
                   runs, last_run, cli, analysed, retry, notice>>

\* Lines 104-107: fetch_page returns its result; with a delay the task sleeps
\* inside the semaphore, without one it leaves it and is done.
Fetched(i) ==
    /\ pool # <<>>
    /\ i <= Len(pool[1].pages)
    /\ pool[1].pc[i] = "fetching"
    /\ \E status_code \in {200, 500} :
          LET res == fetch_page(pool[1].pages[i], status_code)
          IN pool' =
                <<IF pool[1].delay
                  THEN [pool[1] EXCEPT !.pc[i] = "sleeping",
                                       !.fetched[i] = Append(@, res)]
                  ELSE [pool[1] EXCEPT !.pc[i] = "done", !.permits = @ + 1,
                                       !.fetched[i] = Append(@, res)]>>
    /\ UNCHANGED <<differ_vars, norm_vars, report_vars, proc, docs, artifacts, result,
                   runs, last_run, cli, analysed, retry, notice>>

\* Lines 105-107: the delay is over, the task leaves the semaphore.
Delayed(i) ==
    /\ pool # <<>>
    /\ i <= Len(pool[1].pages)
    /\ pool[1].pc[i] = "sleeping"
    /\ pool' = <<[pool[1] EXCEPT !.pc[i] = "done", !.permits = @ + 1]>>
    /\ UNCHANGED <<differ_vars, norm_vars, report_vars, proc, docs, artifacts, result,
                   runs, last_run, cli, analysed, retry, notice>>

\* Line 109: asyncio.gather returns the results of the tasks in the order of
\* the tasks once all are done.
Gather ==
    /\ pool # <<>>
    /\ pool[1].returned = <<>>
    /\ \A i \in 1..Len(pool[1].pages) : pool[1].pc[i] = "done"
    /\ pool' = <<[pool[1] EXCEPT !.returned =
                    <<[i \in 1..Len(pool[1].pages) |->
                          pool[1].fetched[i][Len(pool[1].fetched[i])]]>>]>>
    /\ UNCHANGED <<differ_vars, norm_vars, report_vars, proc, docs, artifacts, result,
                   runs, last_run, cli, analysed, retry, notice>>

NextPool ==
    \/ FetchAllCall
    \/ Gather
    \/ \E i \in 1..MaxPages : Acquire(i) \/ Fetched(i) \/ Delayed(i)

SpecPool == Init /\ [][NextPool]_vars

(***************************************************************************)
(* The notifier (notifier.py) and SpecNotice: format_message applied to    *)
(* source results with short and long texts                                 *)
(***************************************************************************)
\* In this section a text is the sequence of its characters, the page slug
\* of a diff included, so that len() is the length of the sequence.  The
\* books emoji of line 54 and the bullet of line 61, one character each, are
\* written "B" and "*".

\* MAX_MESSAGE_LENGTH and MAX_PAGES_PER_SOURCE (lines 19-20), and the length
\* the first line of an analysis is cut to (line 66).
MAX_MESSAGE_LENGTH == 4096

MAX_PAGES_PER_SOURCE == 5

AnalysisSummaryLen == 80

\* The most source results handed to format_message.
MaxSources == 2

\* The length of a long slug, summary, analysis or URL.
LongLen == 1000

\* html.escape of a character, quotes included.
EscapeChar(c) ==
    IF c = "&" THEN <<"&", "a", "m", "p", ";">>
    ELSE IF c = "<" THEN <<"&", "l", "t", ";">>
    ELSE IF c = ">" THEN <<"&", "g", "t", ";">>
    ELSE IF c = "\"" THEN <<"&", "q", "u", "o", "t", ";">>
    ELSE IF c = "'" THEN <<"&", "#", "x", "2", "7", ";">>
    ELSE <<c>>

RECURSIVE html_escape(_)
\* html.escape(text)
html_escape(text) ==
    IF text = <<>> THEN <<>>
    ELSE IF Len(text) = 1 THEN EscapeChar(text[1])
    ELSE LET half == Len(text) \div 2
         IN html_escape(SubSeq(text, 1, half)) \o html_escape(SubSeq(text, half + 1, Len(text)))

\* text.split("\n")[0]
FirstLine(text) ==
    LET breaks == {i \in 1..Len(text) : text[i] = "\n"}
    IN IF breaks = {} THEN text
       ELSE SubSeq(text, 1, (CHOOSE i \in breaks : \A j \in breaks : i <= j) - 1)

\* text[:n]
Prefix(text, n) == SubSeq(text, 1, IF Len(text) < n THEN Len(text) ELSE n)

RECURSIVE JoinLines(_)
\* "\n".join(lines)
JoinLines(lines) ==
    IF lines = <<>> THEN <<>>
    ELSE IF Len(lines) = 1 THEN lines[1]
    ELSE lines[1] \o <<"\n">> \o JoinLines(Tail(lines))

\* date.isoformat()
isoformat(d) ==
    ZeroPad(d.year, 4) \o <<"-">> \o ZeroPad(d.month, 2) \o <<"-">> \o ZeroPad(d.day, 2)

\* sum(r.changed_pages for r in source_results)
RECURSIVE SumChanged(_)
SumChanged(source_results) ==
    IF source_results = <<>> THEN 0
    ELSE Head(source_results).changed_pages + SumChanged(Tail(source_results))

\* Lines 57-68: the lines of a listed page, the first line of its analysis
\* below it when it has one that is not empty.
PageLines(d, analyses) ==
    LET found == serialize_analysis(analyses, d.page_slug)
    IN << <<" ", " ", "*", " ">> \o html_escape(d.page_slug) \o <<":", " ">> \o html_escape(d.summary) >>
       \o (IF found # <<>> /\ found[1] # <<>>
           THEN << <<" ", " ", " ", " ", "<", "i", ">">>
                   \o html_escape(Prefix(FirstLine(found[1]), AnalysisSummaryLen))
                   \o <<"<", "/", "i", ">">> >>
           ELSE <<>>)

RECURSIVE Flatten1(_)
Flatten1(lists) == IF lists = <<>> THEN <<>> ELSE Head(lists) \o Flatten1(Tail(lists))

\* Lines 53-74: the lines of a source with changes.
SourceLines(r, analyses) ==
    LET listed == Prefix(r.diffs, MAX_PAGES_PER_SOURCE)
    IN << <<"<", "b", ">", "B", " ">> \o html_escape(r.source_name) \o <<"<", "/", "b", ">">>,
          <<" ", " ">> \o Decimal(r.changed_pages) \o <<" ", "c", "h", "a", "n", "g", "e", "d">> >>
       \o Flatten1([i \in 1..Len(listed) |-> PageLines(listed[i], analyses)])
       \o (IF r.changed_pages > MAX_PAGES_PER_SOURCE
           THEN << <<" ", " ", ".", ".", ".", " ", "a", "n", "d", " ">> \o Decimal(r.changed_pages - MAX_PAGES_PER_SOURCE) \o <<" ", "m", "o", "r", "e">> >>
           ELSE <<>>)
       \o << <<>> >>

\* Lines 38-80: the lines of the message.
MessageLines(source_results, report_date, report_url, analyses) ==
    LET total_changes == SumChanged(source_results)
        has_changes(r) == r.changed_pages > 0
        sources_with_changes == SelectSeq(source_results, has_changes)
    IN << <<"<", "b", ">", "D", "o", "c", "u", "m", "e", "n", "t", "a", "t", "i", "o", "n",
      " ", "U", "p", "d", "a", "t", "e", "d", " ", "(">> \o isoformat(report_date) \o <<")", "<", "/", "b", ">">>,
          <<>>,
          Decimal(total_changes)
             \o (IF total_changes = 1 THEN <<" ", "p", "a", "g", "e">> ELSE <<" ", "p", "a", "g", "e", "s">>)
             \o <<" ", "c", "h", "a", "n", "g", "e", "d", " ", "a", "c", "r", "o", "s", "s", " ">> \o Decimal(Len(sources_with_changes)) \o <<" ", "s", "o", "u", "r", "c", "e", "(", "s", ")">>,
          <<>> >>
       \o Flatten1([i \in 1..Len(sources_with_changes) |->
                      SourceLines(sources_with_changes[i], analyses)])
       \o << <<"<", "a", " ", "h", "r", "e", "f", "=", "\"">> \o report_url \o <<"\"", ">", "V", "i", "e", "w", " ", "F", "u", "l", "l", " ", "D", "i", "f", "f",
      " ", "R", "e", "p", "o", "r", "t", "<", "/", "a", ">">> >>

Truncate_keep(message) ==
    IF Len(message) > MAX_MESSAGE_LENGTH
    THEN SubSeq(message, 1, MAX_MESSAGE_LENGTH) \o <<".", ".", ".">>
    ELSE message

\* Lines 84-86: a message that is too long is cut and ends in "...".
Truncate(message) ==
    IF Len(message) > MAX_MESSAGE_LENGTH
    THEN SubSeq(message, 1, MAX_MESSAGE_LENGTH - 3) \o <<".", ".", ".">>
    ELSE message

\* format_message (lines 30-88).
format_message(source_results, report_date, report_url, analyses) ==
    Truncate(JoinLines(MessageLines(source_results, report_date, report_url, analyses)))

\* A short text with characters that html.escape replaces, and long texts.
ShortText == <<"a", "<", "b", "&">>

LongText == [i \in 1..LongLen |-> "x"]

LongAnalysis == [i \in 1..LongLen |-> "y"] \o <<"\n", "z">>

\* The diffs of a source result with n changed pages: page i has the slug
\* p<i> and the given summary.
NoticeDiffs(n, summary) ==
    [i \in 1..n |-> [page_slug |-> <<"p">> \o Decimal(i), summary |-> summary]]

\* The source results of a run: a source without changes, and sources with
\* one and with more than MAX_PAGES_PER_SOURCE changed pages.
SourceResults ==
    {[source_name |-> <<"A", "&", "B">>, changed_pages |-> n,
      diffs |-> NoticeDiffs(n, summary)] :
        n \in {0, 1, MAX_PAGES_PER_SOURCE + 1}, summary \in {ShortText, LongText}}

SourceResultLists == UNION {[1..k -> SourceResults] : k \in 0..MaxSources}

ReportUrls == {<<"h", "t", "t", "p", ":", "/", "/", "r", "/">>, LongText}

NoticeAnalyses ==
    {<<>>, <<AnalysisResult(<<"p", "1">>, LongAnalysis, <<>>)>>}

\* The arguments of a format_message call, not yet made.
InitNotice ==
    /\ \E source_results \in SourceResultLists, t \in Times, report_url \in ReportUrls,
          analyses \in NoticeAnalyses :
          notice = <<[source_results |-> source_results,
                      report_date |-> DateOf(astimezone_EST(t)),
                      report_url |-> report_url, analyses |-> analyses,
                      message |-> <<>>]>>
    /\ retry = <<>>
    /\ pool = <<>>
    /\ DifferIdle /\ NormalizerIdle /\ ReporterInit /\ ProcsIdle
    /\ docs = [path \in {} |-> <<>>]
    /\ artifacts = [path \in {} |-> <<>>]
    /\ result = <<>> /\ runs = 0 /\ last_run = <<>> /\ cli = <<>> /\ analysed = <<>>

FormatMessage ==
    /\ notice[1].message = <<>>
    /\ notice' = <<[notice[1] EXCEPT !.message =
                       <<format_message(notice[1].source_results, notice[1].report_date,
                                        notice[1].report_url, notice[1].analyses)>>]>>
    /\ UNCHANGED <<differ_vars, norm_vars, report_vars, proc, docs, artifacts, result,
                   runs, last_run, cli, analysed, retry, pool>>

NextNotice == FormatMessage

SpecNotice == InitNotice /\ [][NextNotice]_vars

(***************************************************************************)
(* SpecRebuild: the main index rebuilt while page artifacts and a day's     *)
(* index.html and meta.json are being written                               *)
(***************************************************************************)
\* The process that writes the daily reports; update_main_index runs in
\* another one.
Writer == 1

\* The writer renders the pages of the diffs it is about to hand to
\* generate_daily_index, with the same report_time (main.py lines 187-189
\* before lines 308-314).
GeneratePageDiff ==
    /\ proc[Writer].pc = "called"
    /\ artifacts' = _generate_reports(artifacts, proc[Writer].diffs, <<>>,
                                      proc[Writer].report_time)
    /\ artifacts' # artifacts
    /\ UNCHANGED <<differ_vars, norm_vars, report_vars, proc, docs, result, runs, last_run, cli, analysed, fetch_vars>>

NextRebuild ==
    \/ GeneratePageDiff
    \/ RaceCall(Writer)
    \/ RaceLoad(Writer)
    \/ RaceWriteIndex(Writer)
    \/ RaceWriteMeta(Writer)
    \/ UpdateMainIndex

SpecRebuild == Init /\ [][NextRebuild]_vars

(***************************************************************************)
(* SpecGroup: one generate_daily_index call on the diffs of several sources *)
(***************************************************************************)
\* A second source of the configuration; the ids of the sources are the keys
\* of a mapping (config.py lines 142-158), hence distinct.
SourceB == [id |-> <<"agent-sdk">>, name |-> <<"Agent SDK">>]

\* The diffs of the two sources and of a caller that tags none, with and
\* without changes.
GroupDiffs ==
    { TagSource(compute_diff(<<"overview">>, <<"a">>, <<"a", "\n", "b">>), SourceA),
      TagSource(compute_diff(<<"api", "messages">>, <<"a">>, <<"b">>), SourceA),
      TagSource(compute_diff(<<"overview">>, <<"a">>, <<"a">>), SourceA),
      TagSource(compute_diff(<<"overview">>, <<"a">>, <<"a", "\n", "b">>), SourceB),
      TagSource(compute_diff(<<"setup">>, <<>>, <<"a">>), SourceB),
      TagSource(compute_diff(<<"api", "messages">>, <<"a">>, <<"a", "\n">>), NoSource) }

\* The longest list of diffs handed over: long enough for a source to come
\* back after another one.
GroupLen == MaxDiffs + 2

GroupDiffLists == UNION {[1..k -> GroupDiffs] : k \in 0..GroupLen}

NextGroup ==
    \/ RaceCallWith(Writer, GroupDiffLists, 1)
    \/ RaceLoad(Writer)
    \/ RaceWriteIndex(Writer)
    \/ RaceWriteMeta(Writer)

SpecGroup == Init /\ [][NextGroup]_vars

(***************************************************************************)
(* SpecDiff: compute_diff applied to every pair of bounded texts and to    *)
(* the documented scenarios                                                 *)
(***************************************************************************)

\* "# A\n\nHello" and "# A\n\nHello world" (the end-to-end scenario), and
\* "# Title\n\nContent" with and without a final newline (test_differ.py).
ScenarioOld == <<"#", " ", "A", "\n", "\n", "H", "e", "l", "l", "o">>
ScenarioNew == ScenarioOld \o <<" ", "w", "o", "r", "l", "d">>
TitleOld == <<"#", " ", "T", "\n", "\n", "C">>
TitleNew == TitleOld \o <<"\n">>

ScenarioPairs == {<<ScenarioOld, ScenarioNew>>, <<TitleOld, TitleNew>>}

InitDiff ==
    /\ page_slug \in Slugs
    /\ \E pair \in (Texts \X Texts) \cup ScenarioPairs :
          /\ old_content = pair[1]
          /\ new_content = pair[2]
    /\ diff = <<>>
    /\ NormalizerIdle
    /\ ReporterInit
    /\ ProcsIdle
    /\ MonitorInit

ComputeDiff ==
    /\ diff = <<>>
    /\ diff' = <<compute_diff(page_slug, old_content, new_content)>>
    /\ UNCHANGED <<page_slug, old_content, new_content, norm_vars, report_vars, proc, run_vars>>

NextDiff == ComputeDiff

SpecDiff == InitDiff /\ [][NextDiff]_vars

(***************************************************************************)
(* SpecNormalize: normalize_html_content applied to two documents that      *)
(* differ in their nonce values only                                        *)
(***************************************************************************)
InitNormalize ==
    /\ \E a \in HtmlDocs : \E b \in {c \in HtmlDocs : SameExceptNonce(a, c)} :
          raw = <<a, b>>
    /\ normalized = <<>>
    /\ DifferIdle
    /\ ReporterInit
    /\ ProcsIdle
    /\ MonitorInit

Normalize ==
    /\ normalized = <<>>
    /\ normalized' = <<normalize_html_content(Render(raw[1])),
                       normalize_html_content(Render(raw[2]))>>
    /\ UNCHANGED <<raw, differ_vars, report_vars, proc, run_vars>>

NextNormalize == Normalize

SpecNormalize == InitNormalize /\ [][NextNormalize]_vars

(***************************************************************************)
(* Claims about the diff engine (checked under SpecDiff)                    *)
(***************************************************************************)
\* The lines of a text, read off its positions: a line starts at the first
\* character or right after a "\n", and runs up to the next "\n" or the end.
LineSet(t) ==
    { SubSeq(t, i, j-1) : <<i, j>> \in
        { p \in (1..Len(t)) \X (1..(Len(t)+1)) :
            /\ p[1] <= p[2]
            /\ (p[1] = 1 \/ t[p[1]-1] = "\n")
            /\ (p[2] = Len(t)+1 \/ t[p[2]] = "\n")
            /\ \A k \in p[1]..(p[2]-1) : t[k] # "\n" } }

\* How many lines of the list equal x.
Occurrences(lines, x) == Cardinality({i \in 1..Len(lines) : lines[i] = x})

\* The second list holds the lines of the first in another order.
Reordered(a, b) ==
    /\ Len(a) = Len(b)
    /\ a # b
    /\ \A x \in Range(a) \cup Range(b) : Occurrences(a, x) = Occurrences(b, x)

\* The positions at which two line lists of equal length differ.
EditedAt(a, b) == {i \in 1..Len(a) : a[i] # b[i]}

OneLineEdited(a, b) == Len(a) = Len(b) /\ Cardinality(EditedAt(a, b)) = 1

\* C6: compute_diff returns has_changes = false exactly when the two texts are
\* equal, and then the diffs are empty, both counts are 0 and the summary is
\* "No changes"; texts that differ, be it by one final newline, give true.
C6_NoChangeIffEqual ==
    diff # <<>> =>
        LET d == diff[1]
        IN /\ (d.has_changes = FALSE) <=> (old_content = new_content)
           /\ ~d.has_changes =>
                 /\ d.unified_diff = <<>>
                 /\ d.html_diff = <<>>
                 /\ d.added_lines = 0
                 /\ d.removed_lines = 0
                 /\ d.summary = <<"No changes">>

\* C6 witness: the texts differ by a final newline only and the diff says changed.
C6_Witness ==
    /\ diff # <<>>
    /\ old_content = TitleOld
    /\ new_content = TitleOld \o <<"\n">>
    /\ diff[1].has_changes

\* The counts are those of the set difference of the line sets, and a reordering
\* of the lines counts 0 and 0.
SetDifferenceCounts ==
    diff # <<>> /\ diff[1].has_changes =>
        LET d == diff[1]
            a == splitlines(old_content)
            b == splitlines(new_content)
        IN /\ d.added_lines = Cardinality(LineSet(new_content) \ LineSet(old_content))
           /\ d.removed_lines = Cardinality(LineSet(old_content) \ LineSet(new_content))
           /\ Reordered(a, b) => d.added_lines = 0 /\ d.removed_lines = 0

\* C7 as stated: set-difference counts, 0 and 0 for a reordering, and 1 added
\* and 1 removed for every edit of one line.
C7_Original ==
    /\ SetDifferenceCounts
    /\ diff # <<>> /\ diff[1].has_changes
         /\ OneLineEdited(splitlines(old_content), splitlines(new_content)) =>
           diff[1].added_lines = 1 /\ diff[1].removed_lines = 1

\* C7 (amended): set-difference counts, 0 and 0 for a reordering; an edit of one
\* line counts 1 added unless the line's new text is a line of the old text, and
\* 1 removed unless its old text is still a line of the new text.
C7_SetDifferenceCounts ==
    /\ SetDifferenceCounts
    /\ diff # <<>> /\ diff[1].has_changes
         /\ OneLineEdited(splitlines(old_content), splitlines(new_content)) =>
           LET a == splitlines(old_content)
               b == splitlines(new_content)
               k == CHOOSE i \in EditedAt(a, b) : TRUE
           IN /\ diff[1].added_lines = IF b[k] \in Range(a) THEN 0 ELSE 1
              /\ diff[1].removed_lines = IF a[k] \in Range(b) THEN 0 ELSE 1

\* C7 witness: one line of two was edited into a copy of the other line; one
\* line is counted removed and none added.
C7_Witness ==
    /\ diff # <<>>
    /\ old_content = <<"a", "\n", "b">>
    /\ new_content = <<"a", "\n", "a">>
    /\ diff[1].added_lines = 0
    /\ diff[1].removed_lines = 1

\* C8 as stated: texts that differ with both counts zero are summarised
\* "No changes".
C8_Original ==
    diff # <<>> /\ diff[1].has_changes
        /\ diff[1].added_lines = 0 /\ diff[1].removed_lines = 0 =>
            diff[1].summary = <<"No changes">>

\* C8 (amended): texts that differ with both counts zero (a final newline, a
\* reordering) are summarised "Formatting changes".
C8_FormattingChanges ==
    diff # <<>> /\ diff[1].has_changes
        /\ diff[1].added_lines = 0 /\ diff[1].removed_lines = 0 =>
            diff[1].summary = <<"Formatting changes">>

\* C8 witness: only a final newline was added; both counts are zero.
C8_Witness ==
    /\ diff # <<>>
    /\ old_content = TitleOld
    /\ new_content = TitleNew
    /\ diff[1].has_changes
    /\ diff[1].added_lines = 0
    /\ diff[1].removed_lines = 0

\* "+N lines" and "-M lines", written out.
PlusLines(n) == <<"+">> \o Decimal(n) \o <<" lines">>
MinusLines(m) == <<"-">> \o Decimal(m) \o <<" lines">>

\* C9: with a positive count the summary is "+N lines, -M lines", a side whose
\* count is zero left out; the scenario "# A\n\nHello" to "# A\n\nHello world"
\* gives "+1 lines, -1 lines".
C9_SummaryFormat ==
    diff # <<>> =>
        LET d == diff[1]
            n == d.added_lines
            m == d.removed_lines
        IN /\ n > 0 /\ m > 0 => d.summary = PlusLines(n) \o <<", ">> \o MinusLines(m)
           /\ n > 0 /\ m = 0 => d.summary = PlusLines(n)
           /\ n = 0 /\ m > 0 => d.summary = MinusLines(m)
           /\ old_content = ScenarioOld /\ new_content = ScenarioNew =>
                 d.summary = <<"+", "1", " lines", ", ", "-", "1", " lines">>

\* C9 witness: the scenario has been diffed, with one line added and one removed.
C9_Witness ==
    /\ diff # <<>>
    /\ old_content = ScenarioOld
    /\ new_content = ScenarioNew
    /\ diff[1].added_lines = 1
    /\ diff[1].removed_lines = 1

(***************************************************************************)
(* Claims about the report generator                                        *)
(***************************************************************************)
\* C1: each generate_daily_index call for a day adds exactly one batch at the
\* end of the batch list of that day's meta.json and leaves every earlier batch
\* at its position with its content; the lists of the other days stay as they are.
C1_AppendOnly ==
    [][\A d \in DayDirs :
          LET before == LoadBatches(meta[d])
              after == LoadBatches(meta'[d])
          IN IF calls'[d] # calls[d]
             THEN /\ Len(after) = Len(before) + 1
                  /\ \A i \in 1..Len(before) : after[i] = before[i]
             ELSE after = before]_vars

\* C1 witness: a day that two calls wrote to holds two batches of different content.
C1_Witness ==
    \E d \in DayDirs :
        /\ Len(calls[d]) = 2
        /\ Len(LoadBatches(meta[d])) = 2
        /\ meta[d][1].batches[1].pages # <<>>
        /\ meta[d][1].batches[1] # meta[d][1].batches[2]

\* The page entries of a batch list, each named by its place.
PagePlaces(batches) ==
    UNION {{<<i, j>> : j \in 1..Len(batches[i].pages)} : i \in 1..Len(batches)}

\* C2: the count of a day's meta.json and the total_changes given to the daily
\* template both equal the number of page entries of all batches persisted for
\* the day, those of earlier runs included.
C2_CountIsSumOverAllBatches ==
    \A d \in DayDirs :
        meta[d] # <<>> =>
            /\ meta[d][1].count = Cardinality(PagePlaces(meta[d][1].batches))
            /\ daily_index[d] # <<>>
            /\ daily_index[d][1].total_changes = Cardinality(PagePlaces(meta[d][1].batches))

\* C2 witness: two batches with a page each, counted 2.
C2_Witness ==
    \E d \in DayDirs :
        /\ meta[d] # <<>>
        /\ Len(meta[d][1].batches) = 2
        /\ Len(meta[d][1].batches[1].pages) = 1
        /\ Len(meta[d][1].batches[2].pages) = 1
        /\ meta[d][1].count = 2

\* C3: the persisted batch list of a day is in run order, oldest first (its i-th
\* batch is the batch of the i-th call for that day, and the call times do not
\* decrease), and the list given to the daily template is its reverse.
C3_OldestFirstReversedForDisplay ==
    \A d \in DayDirs :
        meta[d] # <<>> =>
            LET batches == meta[d][1].batches
                shown == daily_index[d][1].batches
            IN /\ Len(batches) = Len(calls[d])
               /\ \A i \in 1..Len(batches) :
                     batches[i].timestamp = strftime_batch(calls[d][i])
               /\ \A i, j \in 1..Len(batches) : i < j => calls[d][i] <= calls[d][j]
               /\ Len(shown) = Len(batches)
               /\ \A i \in 1..Len(batches) : shown[i] = batches[Len(batches) + 1 - i]

\* C3 witness: two runs of one day at different times; the later one is last in
\* meta.json and first in the daily index.
C3_Witness ==
    \E d \in DayDirs :
        /\ meta[d] # <<>>
        /\ Len(calls[d]) = 2
        /\ calls[d][1] < calls[d][2]
        /\ meta[d][1].batches[2].timestamp = strftime_batch(calls[d][2])
        /\ daily_index[d][1].batches[1].timestamp = strftime_batch(calls[d][2])
        /\ meta[d][1].batches[1].timestamp # meta[d][1].batches[2].timestamp

\* The number a string of digits denotes.
RECURSIVE ToNat(_)
ToNat(digits) ==
    IF digits = <<>> THEN 0
    ELSE 10 * ToNat(SubSeq(digits, 1, Len(digits) - 1)) + (DigitOrd(digits[Len(digits)]) - 1)

\* The <<year, month, day>> numbers of a date "Y-M-D".
ParseDate(date) ==
    LET dashes == {i \in 1..Len(date) : date[i] = "-"}
        first == CHOOSE i \in dashes : \A j \in dashes : i <= j
        last == CHOOSE i \in dashes : \A j \in dashes : j <= i
    IN <<ToNat(SubSeq(date, 1, first - 1)),
         ToNat(SubSeq(date, first + 1, last - 1)),
         ToNat(SubSeq(date, last + 1, Len(date)))>>

\* Calendar date a is later than calendar date b.
DateLater(a, b) ==
    \/ a[1] > b[1]
    \/ a[1] = b[1] /\ a[2] > b[2]
    \/ a[1] = b[1] /\ a[2] = b[2] /\ a[3] > b[3]

\* C10: the main index lists the report days newest first: an entry with a
\* later calendar date comes before every entry with an earlier one.
C10_NewestFirst ==
    main_index # <<>> =>
        \A i, j \in 1..Len(main_index[1]) :
            i < j => DateLater(ParseDate(main_index[1][i].date),
                               ParseDate(main_index[1][j].date))

\* C10 witness: reports of both years are listed, 2026-01-01 before 2025-12-31.
C10_Witness ==
    /\ main_index # <<>>
    /\ Len(main_index[1]) >= 2
    /\ main_index[1][1].date = <<"2", "0", "2", "6", "-", "0", "1", "-", "0", "1">>
    /\ main_index[1][2].date = <<"2", "0", "2", "5", "-", "1", "2", "-", "3", "1">>

\* Two calls for one day have returned, and one of them read meta.json while
\* the other had read it and not yet written it.
BothReadBeforeEitherWrote ==
    /\ \A p \in Procs : proc[p].pc = "done"
    /\ \E p \in Procs : proc[p].overlaps = proc[Other(p)].id

\* The batch a process builds from its arguments.
BatchOf(p) ==
    NewBatch(proc[p].diffs, proc[p].report_time, <<>>, proc[p].batch_analysis)

\* C4: when two generate_daily_index calls for the same day both read
\* meta.json before either writes it, the meta.json that results is the list
\* one of them read followed by the new batch of that call alone: the new batch
\* of the other call is not added to it, so one run's batch is lost.
C4_InterleavedCallsLoseABatch ==
    BothReadBeforeEitherWrote =>
        LET final == meta[_get_date_dir(proc[1].report_time)][1].batches
        IN \E w \in Procs :
              /\ Len(final) = Len(proc[w].batches) + 1
              /\ \A i \in 1..Len(proc[w].batches) : final[i] = proc[w].batches[i]
              /\ final[Len(final)] = BatchOf(w)

\* C4 witness: both calls have returned after reading the same list, their
\* batches differ, and meta.json holds one batch more than was read, not two.
C4_Witness ==
    /\ BothReadBeforeEitherWrote
    /\ BatchOf(1) # BatchOf(2)
    /\ BatchOf(1).pages # <<>>
    /\ BatchOf(2).pages # <<>>
    /\ Len(meta[_get_date_dir(proc[1].report_time)][1].batches) = Len(proc[1].batches) + 1

\* The page entries of a list of batches, those of the flat page lists and
\* those of the source groups.
EntriesOf(batches) ==
    UNION {Range(batches[i].pages) : i \in 1..Len(batches)}
    \cup UNION {UNION {Range(batches[i].sources[k].pages) :
                          k \in 1..Len(batches[i].sources)} : i \in 1..Len(batches)}

\* A page entry made from a diff without changes: compute_diff gives such a
\* diff the summary "No changes" and no diff with changes has that summary.
FromUnchangedDiff(e) == e.summary = <<"No changes">> /\ e.added = 0 /\ e.removed = 0

\* C5: a diff whose has_changes is false is never among the diffs a run
\* collects, and never a page entry of a source group or of the flat page list
\* of a batch persisted in a day's meta.json (or shown on its daily index).
C5_UnchangedNeverABatchEntry ==
    /\ result # <<>> =>
          \A i \in 1..Len(result[1].diffs) : result[1].diffs[i].has_changes
    /\ \A d \in DayDirs :
          /\ meta[d] # <<>> =>
                \A e \in EntriesOf(meta[d][1].batches) : ~FromUnchangedDiff(e)
          /\ daily_index[d] # <<>> =>
                \A e \in EntriesOf(daily_index[d][1].batches) : ~FromUnchangedDiff(e)

\* C5 witness: the second run fetched two pages without a failure and found
\* one of them unchanged, and the batches persisted for the runs hold the
\* entries of the changed pages only.
C5_Witness ==
    /\ runs = 2
    /\ result # <<>>
    /\ result[1].total_pages = 2
    /\ result[1].failed_pages = 0
    /\ result[1].changed_pages = 1
    /\ Len(result[1].diffs) = 1
    /\ \E d \in DayDirs :
          /\ meta[d] # <<>>
          /\ Len(meta[d][1].batches) = 2
          /\ Len(meta[d][1].batches[1].pages) = 2
          /\ Len(meta[d][1].batches[2].pages) = 1
          /\ meta[d][1].count = 3


\* The entries of a main index for a day directory.
EntriesOfDay(index, d) ==
    {i \in 1..Len(index) :
        index[i].path = d[1] \o <<"/">> \o d[2] \o <<"/">> \o d[3] \o <<"/">>}

\* The page artifacts rendered for a day: the .html files below its directory.
PageArtifactsOf(files, d) ==
    {q \in DOMAIN files :
        /\ Len(q.dirs) >= Len(d) /\ SubSeq(q.dirs, 1, Len(d)) = d
        /\ q.name[2] = ".html"}

\* C11: when update_main_index rebuilds the main index, a day that has its
\* index.html and no meta.json still gets an entry, with the date string as
\* timestamp and the number of the day's rendered page artifacts as count.
C11_FallbackCountsPageArtifacts ==
    [][main_index' # main_index =>
          \A d \in DayDirs :
              (daily_index[d] # <<>> /\ meta[d] = <<>>) =>
                  \E i \in EntriesOfDay(main_index'[1], d) :
                      /\ main_index'[1][i].timestamp = main_index'[1][i].date
                      /\ main_index'[1][i].date = d[1] \o <<"-">> \o d[2] \o <<"-">> \o d[3]
                      /\ main_index'[1][i].count
                            = Cardinality(PageArtifactsOf(artifacts, d))]_vars

\* C12: a step that rewrites index.html of the reports root leaves every day's
\* meta.json and index.html, every page artifact and every stored snapshot as
\* they were.
C12_RebuildOnlyWritesMainIndex ==
    [][main_index' # main_index =>
          /\ meta' = meta
          /\ daily_index' = daily_index
          /\ artifacts' = artifacts
          /\ docs' = docs]_vars

\* C12 witness: the main index lists a day without meta.json and a day with
\* a batch in its meta.json, and a page artifact exists.
C12_Witness ==
    /\ main_index # <<>>
    /\ Len(main_index[1]) = 2
    /\ DOMAIN artifacts # {}
    /\ \E d \in DayDirs : daily_index[d] # <<>> /\ meta[d] = <<>>
                           /\ EntriesOfDay(main_index[1], d) # {}
    /\ \E d \in DayDirs : meta[d] # <<>> /\ meta[d][1].count = 1
                           /\ EntriesOfDay(main_index[1], d) # {}

\* A document without its nonce attributes.
WithoutNonce(doc) ==
    [i \in 1..Len(doc) |->
        [doc[i] EXCEPT !.attrs =
            LET keep == {k \in 1..Len(doc[i].attrs) : doc[i].attrs[k].name # "nonce"}
                nth(n) == CHOOSE k \in keep : Cardinality({j \in keep : j <= k}) = n
            IN [n \in 1..Cardinality(keep) |-> doc[i].attrs[nth(n)]]]]

HasNonce(doc) ==
    \E i \in 1..Len(doc) : \E k \in 1..Len(doc[i].attrs) : doc[i].attrs[k].name = "nonce"

\* C14: two documents that are the same but for the values of their nonce
\* attributes normalize to the same text; the result is the document with
\* every nonce attribute removed and the other attributes kept; a text without
\* markup comes back unchanged.
C14_NonceInvariance ==
    normalized # <<>> =>
        /\ SameExceptNonce(raw[1], raw[2]) => normalized[1] = normalized[2]
        /\ normalized[1] = Render(WithoutNonce(raw[1]))
        /\ (\A i \in 1..Len(raw[1]) : ~raw[1][i].tag) => normalized[1] = Render(raw[1])

\* C14 witness: two tags with a nonce each, of other values in the second
\* document, and another attribute that is kept.
C14_Witness ==
    /\ normalized # <<>>
    /\ Len(raw[1]) = 2
    /\ \A i \in 1..2 : HasNonce(<<raw[1][i]>>) /\ raw[1][i] # raw[2][i]
    /\ Len(raw[1][1].attrs) = 2
    /\ Render(raw[1]) # Render(raw[2])
    /\ normalized[1] = normalized[2]
    /\ normalized[1] # Render(raw[1])

(***************************************************************************)
(* Claims about the run of the monitor                                      *)
(***************************************************************************)
\* The diffs of a run result for a page.
DiffsFor(r, slug) == {i \in 1..Len(r.diffs) : r.diffs[i].page_slug = slug}

\* C13: when a page is fetched in two successive runs with contents that
\* differ in their nonce values only, the second run has no diff for the page,
\* and the snapshot stored for it is the normalized text.
C13_NonceOnlyRefetchIsNoChange ==
    [][(runs' = runs + 1 /\ last_run # <<>>) =>
          \A i \in 1..Len(RunPages) :
              LET before == last_run[1].fetch_results[i]
                  after == last_run'[1].fetch_results[i]
              IN (/\ is_success(before) /\ before.content[1] \in NonceFetchTexts
                  /\ is_success(after) /\ after.content[1] \in NonceFetchTexts
                  /\ before.content # after.content)
                 => /\ DiffsFor(result'[1], RunPages[i]) = {}
                    /\ load_stored_content(docs', RunPages[i])
                          = <<normalize_html_content(after.content[1])>>]_vars

\* C15: in every run, a page whose fetch failed adds 1 to failed_pages and
\* its entry to errors, gets no diff and keeps its stored snapshot, and the run
\* returns with the other pages processed: each fetched page whose text is not
\* the stored one has its diff and its new snapshot.
C15_FailedFetchIsCountedAndSkipped ==
    [][runs' = runs + 1 =>
          LET fr == last_run'[1].fetch_results
              r == result'[1]
              failed == {i \in 1..Len(fr) : ~is_success(fr[i])}
          IN /\ last_run'[1].returned
             /\ r.failed_pages = Cardinality(failed)
             /\ Len(r.errors) = Cardinality(failed)
             /\ \A i \in failed :
                   /\ \E k \in 1..Len(r.errors) :
                         r.errors[k] = fr[i].page_slug \o <<": ">> \o fr[i].error[1]
                   /\ DiffsFor(r, fr[i].page_slug) = {}
                   /\ load_stored_content(docs', fr[i].page_slug)
                         = load_stored_content(docs, fr[i].page_slug)
             /\ \A i \in (1..Len(fr)) \ failed :
                   fr[i].content[1] # StoredOrEmpty(docs, fr[i].page_slug) =>
                       /\ DiffsFor(r, fr[i].page_slug) # {}
                       /\ docs'[SlugPath(<<>>, fr[i].page_slug, ".md")] = fr[i].content[1]]_vars

\* C15 witness: in the second run the fetch of the first page failed, its
\* snapshot of the first run is still stored, and the second page changed.
C15_Witness ==
    /\ runs = 2
    /\ ~is_success(last_run[1].fetch_results[1])
    /\ is_success(last_run[1].fetch_results[2])
    /\ load_stored_content(docs, RunPages[1]) # <<>>
    /\ result[1].failed_pages = 1
    /\ result[1].changed_pages = 1
    /\ result[1].diffs[1].page_slug = RunPages[2]
    /\ result[1].diffs[1].old_content # <<>>

\* C16: a run in which every page is fetched with the content of the run
\* before reports no changed page, has no diff and leaves the snapshots as
\* they are.
C16_SameContentIsNoChange ==
    [][(/\ runs' = runs + 1
        /\ last_run # <<>>
        /\ last_run'[1].fetch_results = last_run[1].fetch_results
        /\ \A i \in 1..Len(RunPages) : is_success(last_run[1].fetch_results[i]))
       => /\ result'[1].changed_pages = 0
          /\ result'[1].diffs = <<>>
          /\ docs' = docs]_vars

\* The directories a slug names before its last component.
SlugDirs(slug) == [i \in 1..(Len(slug) - 1) |-> <<slug[i]>>]

C18_RunWritesArtifactsAndDailyIndex ==
    [][(runs' = runs + 1 /\ last_run'[1].generate_reports
            /\ result'[1].changed_pages > 0) =>
          /\ \A i \in 1..Len(result'[1].diffs) :
                ArtifactPath(result'[1].diffs[i], last_run'[1].report_time)
                    \in DOMAIN artifacts'
          /\ daily_index'[_get_date_dir(last_run'[1].report_time)] # <<>>]_vars

(***************************************************************************)
(* Claims about the command line and the analyzer                           *)
(***************************************************************************)
\* The analyzer of the command line fails, answers nothing, or is not used.
EnrichmentFails(c) ==
    \/ ~enabled(c.analyzer)
    \/ c.api.raises
    \/ c.api.content = <<>>

\* A page was fetched whose text differs from its snapshot in store.
HasPendingChange(store, fetch_results) ==
    \E i \in 1..Len(fetch_results) :
        /\ is_success(fetch_results[i])
        /\ compute_diff(fetch_results[i].page_slug,
                        StoredOrEmpty(store, fetch_results[i].page_slug),
                        fetch_results[i].content[1]).has_changes

\* C19: analyze_diff and analyze_batch return None when the analyzer is
\* disabled, an "Analysis error" placeholder when the API call raises and the
\* empty-response placeholder when the response has no content; and a run of
\* the command line with reports wanted and a changed page writes the daily
\* index of the day and rebuilds the main index in each of these cases.
C19_FailingEnrichmentNeverBlocksReports ==
    [][/\ analysed' # analysed =>
            LET a == analysed'[1]
                analysable == /\ enabled(a.analyzer)
                              /\ \E i \in 1..Len(a.diffs) : a.diffs[i].has_changes
                              /\ a.call = "analyze_diff" => a.diffs[1].has_changes
            IN /\ ~enabled(a.analyzer) => a.returned = <<>>
               /\ (analysable /\ a.api.raises) =>
                     /\ a.returned # <<>>
                     /\ SubSeq(a.returned[1].analysis, 1, Len(AnalysisError)) = AnalysisError
               /\ (analysable /\ ~a.api.raises /\ a.api.content = <<>>) =>
                     /\ a.returned # <<>>
                     /\ a.returned[1].analysis = EmptyResponse
       /\ (/\ cli' # cli
           /\ ~cli'[1].no_reports
           /\ EnrichmentFails(cli'[1])
           /\ HasPendingChange(docs, cli'[1].fetch_results)) =>
            LET date_dir == _get_date_dir(cli'[1].report_time)
            IN /\ daily_index'[date_dir] # <<>>
               /\ calls'[date_dir] = Append(calls[date_dir], cli'[1].report_time)
               /\ main_index' = <<ScanReports(meta', daily_index', artifacts')>>
               /\ cli'[1].exit_code = 0]_vars

\* The entries of an error list that name a page.
ErrorsOf(errors, slug) ==
    {i \in 1..Len(errors) : SubSeq(errors[i], 1, Len(slug)) = slug}

\* C20: when a write of a run fails, the run still returns its result with
\* the total, changed and failed counts, the failure is in its error list,
\* every other fetched page that changed is saved, and with generate_reports
\* the artifacts of the pages that were diffed and saved are written.
C20_WriteFailureIsRecordedAndRunCompletes ==
    [][(runs' = runs + 1 /\ last_run'[1].raised # {}) =>
          LET fr == last_run'[1].fetch_results
              failed == {i \in 1..Len(fr) : ~is_success(fr[i])}
              unsaved == {i \in 1..Len(fr) :
                             SlugPath(<<>>, fr[i].page_slug, ".md") \in last_run'[1].raised}
          IN /\ last_run'[1].returned
             /\ result' # <<>>
             /\ result'[1].total_pages = Len(fr)
             /\ result'[1].failed_pages = Cardinality(failed)
             /\ \A i \in unsaved : ErrorsOf(result'[1].errors, fr[i].page_slug) # {}
             /\ \A i \in (1..Len(fr)) \ (failed \cup unsaved) :
                   docs'[SlugPath(<<>>, fr[i].page_slug, ".md")] = fr[i].content[1]
             /\ last_run'[1].generate_reports =>
                   \A i \in 1..Len(result'[1].diffs) :
                      ArtifactPath(result'[1].diffs[i], last_run'[1].report_time)
                         \in DOMAIN artifacts']_vars

\* The pages of the batch a generate_daily_index call has just appended to
\* the record of its day.
AppendedPages(d) ==
    LET batches == meta'[d][1].batches
    IN {batches[Len(batches)].pages[j].slug : j \in 1..Len(batches[Len(batches)].pages)}

\* C21: when a run stopped after it saved the snapshot of a page and before
\* it returned its diffs, the next run that fetches the same content for the
\* page has no diff for it, and the daily index written after a run holds
\* pages of the diffs that run returned only, so the change is in no record.
C21_StoppedRunLosesTheChange ==
    [][/\ (runs' = runs + 1 /\ last_run # <<>> /\ ~last_run[1].returned
           /\ last_run'[1].returned) =>
             \A i \in 1..Len(RunPages) :
                LET before == last_run[1].fetch_results[i]
                    after == last_run'[1].fetch_results[i]
                    path == SlugPath(<<>>, RunPages[i], ".md")
                IN (/\ is_success(before) /\ is_success(after)
                    /\ before.content = after.content
                    /\ path \in DOMAIN docs
                    /\ docs[path] = before.content[1])
                   => DiffsFor(result'[1], RunPages[i]) = {}
       /\ \A d \in DayDirs :
             calls'[d] # calls[d] =>
                /\ result # <<>>
                /\ AppendedPages(d) \subseteq
                      {result[1].diffs[k].page_slug : k \in 1..Len(result[1].diffs)}]_vars

(***************************************************************************)
(* Claims about the source groups of a batch                                *)
(***************************************************************************)
\* The diffs with changes of a list, in its order.
ChangedDiffs(diffs) ==
    LET changed(d) == d.has_changes
    IN SelectSeq(diffs, changed)

\* The source id a diff is filed under.
FiledUnder(d) == IF d.source_id = <<>> THEN <<"unknown">> ELSE d.source_id

\* The display name of the source of a diff.
DisplayName(d) == IF d.source_name = <<>> THEN FiledUnder(d) ELSE d.source_name

\* How often an entry occurs in a list.
CountIn(e, list) == Cardinality({i \in 1..Len(list) : list[i] = e})

RECURSIVE SumOver(_, _)
SumOver(f, set) ==
    IF set = {} THEN 0
    ELSE LET x == CHOOSE y \in set : TRUE IN f[x] + SumOver(f, set \ {x})

\* C22: in the batch generate_daily_index has built from its diffs, every
\* source id with a changed page has exactly one source group and every group
\* is of such an id, a group carries the display name of its source, its pages
\* are those of the changed diffs of the source in the order of the input, and
\* an entry occurs in the flat page list as often as in all groups together.
C22_OneGroupPerSource ==
    [][(proc[Writer].pc = "indexed" /\ proc'[Writer].pc = "done") =>
          LET batches == meta'[_get_date_dir(proc[Writer].report_time)][1].batches
              batch == batches[Len(batches)]
              changed == ChangedDiffs(proc[Writer].diffs)
              groups == 1..Len(batch.sources)
          IN /\ \A i \in 1..Len(changed) :
                   Cardinality({k \in groups : batch.sources[k].id = FiledUnder(changed[i])}) = 1
             /\ \A k \in groups :
                   LET of_source(d) == FiledUnder(d) = batch.sources[k].id
                       mine == SelectSeq(changed, of_source)
                   IN /\ mine # <<>>
                      /\ \A i \in 1..Len(mine) : batch.sources[k].name = DisplayName(mine[i])
                      /\ batch.sources[k].pages =
                            [i \in 1..Len(mine) |-> PageEntry(mine[i], <<>>)]
             /\ Len(batch.pages) = Len(changed)
             /\ \A j \in 1..Len(batch.pages) :
                   CountIn(batch.pages[j], batch.pages) =
                      SumOver([k \in groups |->
                                  CountIn(batch.pages[j], batch.sources[k].pages)], groups)]_vars

\* C22 witness: the call was handed a changed page of the first source, one
\* of the second and another of the first, and its batch has the two groups,
\* the first with both pages of the first source.
C22_Witness ==
    /\ proc[Writer].pc = "done"
    /\ Len(proc[Writer].diffs) = 3
    /\ \A i \in 1..3 : proc[Writer].diffs[i].has_changes
    /\ proc[Writer].diffs[1].source_id = SourceA.id
    /\ proc[Writer].diffs[2].source_id = SourceB.id
    /\ proc[Writer].diffs[3].source_id = SourceA.id
    /\ proc[Writer].diffs[1] # proc[Writer].diffs[3]
    /\ LET m == meta[_get_date_dir(proc[Writer].report_time)]
       IN /\ m # <<>>
          /\ Len(m[1].batches) = 1
          /\ Len(m[1].batches[1].sources) = 2
          /\ m[1].batches[1].sources[1].name = SourceA.name
          /\ Len(m[1].batches[1].sources[1].pages) = 2
          /\ Len(m[1].batches[1].pages) = 3

(***************************************************************************)
(* Claims about the fetcher                                                 *)
(***************************************************************************)
\* What holds of every fetch_page_with_retry call, in progress or returned:
\* it has made at most max_retries attempts, every attempt before its last
\* one failed with something else than a client error, a call whose last
\* attempt succeeded or met a client error has returned, and a call that
\* returned after failures of another kind has made all its attempts.
RetryAttemptsInOrder ==
    retry # <<>> =>
        LET r == retry[1]
            n == Len(r.results)
            Is4xx(res) == res.status_code \in 400..499
        IN /\ n <= r.max_retries
           /\ \A i \in 1..(n - 1) : ~is_success(r.results[i]) /\ ~Is4xx(r.results[i])
           /\ (n > 0 /\ (is_success(r.results[n]) \/ Is4xx(r.results[n]))) =>
                 r.pc = "returned"
           /\ (n > 0 /\ Is4xx(r.results[1])) => n = 1
           /\ (r.pc = "returned" /\ n > 0 /\ ~is_success(r.results[n])
               /\ ~Is4xx(r.results[n])) => n = r.max_retries

RetryReturned == retry # <<>> /\ retry[1].pc = "returned"

\* The claim as stated: a returned call returns the result of its last attempt.
C23_Original ==
    /\ [](RetryAttemptsInOrder
          /\ (RetryReturned =>
                 /\ retry[1].results # <<>>
                 /\ retry[1].returned = <<retry[1].results[Len(retry[1].results)]>>))
    /\ <>RetryReturned

\* C23: fetch_page_with_retry makes at most max_retries attempts, returns at
\* the first success or client error without another attempt, and otherwise
\* returns the result of its last attempt; with a max_retries of 0 it makes no
\* attempt and returns the failure "Max retries exceeded" with status 0.  It
\* always returns.
C23_RetryReturnsLastResult ==
    /\ [](RetryAttemptsInOrder
          /\ (RetryReturned =>
                 IF retry[1].results # <<>>
                 THEN retry[1].returned = <<retry[1].results[Len(retry[1].results)]>>
                 ELSE /\ retry[1].max_retries = 0
                      /\ retry[1].returned =
                            <<FetchResult(retry[1].page_slug, <<>>, 0,
                                          << <<"Max retries exceeded">> >>)>>))
    /\ <>RetryReturned

\* C23 witness: a call with three attempts allowed has returned the failure
\* of its third attempt after sleeping 1 and 2 units.
C23_Witness ==
    /\ RetryReturned
    /\ retry[1].max_retries = 3
    /\ Len(retry[1].results) = 3
    /\ retry[1].sleeps = <<1, 2>>
    /\ retry[1].returned = <<retry[1].results[3]>>
    /\ ~is_success(retry[1].results[3])

(***************************************************************************)
(* Claims about the notifier                                                *)
(***************************************************************************)
\* C24: the message format_message has built is at most 4096 characters long.
C24_MessageAtMost4096 ==
    (notice # <<>> /\ notice[1].message # <<>>) => Len(notice[1].message[1]) <= 4096

\* C24 witness: the lines of the call make up more than 4096 characters, and
\* the message built has 4096 and ends in "...".
C24_Witness ==
    /\ notice # <<>>
    /\ notice[1].message # <<>>
    /\ Len(JoinLines(MessageLines(notice[1].source_results, notice[1].report_date,
                                  notice[1].report_url, notice[1].analyses))) > 4096
    /\ Len(notice[1].message[1]) = 4096
    /\ SubSeq(notice[1].message[1], 4094, 4096) = <<".", ".", ".">>

\* The tasks of fetch_all that hold the semaphore: fetching or in their delay.
InProgress ==
    {i \in 1..Len(pool[1].pages) : pool[1].pc[i] \in {"fetching", "sleeping"}}

\* C25: during fetch_all at most concurrency fetches (with their delays) are
\* in progress, no entry of the request list is fetched more than once and a
\* finished one exactly once, and the list returned has the result of each
\* entry at the place of the entry.
C25_BoundedConcurrencyOrderedResults ==
    pool # <<>> =>
        LET p == pool[1]
        IN /\ Cardinality(InProgress) <= p.concurrency
           /\ \A i \in 1..Len(p.pages) :
                 /\ Len(p.fetched[i]) <= 1
                 /\ p.pc[i] \in {"sleeping", "done"} => Len(p.fetched[i]) = 1
                 /\ p.pc[i] \in {"waiting", "fetching"} => Len(p.fetched[i]) = 0
           /\ p.returned # <<>> =>
                 /\ Len(p.returned[1]) = Len(p.pages)
                 /\ \A i \in 1..Len(p.pages) :
                       /\ p.returned[1][i].page_slug = p.pages[i]
                       /\ p.fetched[i] = <<p.returned[1][i]>>

\* C25 witness: three pages were requested with concurrency 2 and a delay,
\* the first one twice, and the list returned has a success, a failure and a
\* success.
C25_Witness ==
    /\ pool # <<>>
    /\ pool[1].concurrency = 2
    /\ pool[1].delay
    /\ pool[1].pages = <<RunPages[1], RunPages[2], RunPages[1]>>
    /\ pool[1].returned # <<>>
    /\ is_success(pool[1].returned[1][1])
    /\ ~is_success(pool[1].returned[1][2])
    /\ is_success(pool[1].returned[1][3])

(***************************************************************************)
(* Claims about first-seen pages, runs without changes and the counters     *)
(***************************************************************************)
\* C26: a run that fetches a page with no stored snapshot has a diff for it,
\* counts it as changed and saves the fetched content as its snapshot exactly
\* when the content is not empty; with empty content the page has no diff, is
\* not counted and has no snapshot after the run.
C26_FirstSeenPage ==
    [][runs' = runs + 1 =>
          LET fr == last_run'[1].fetch_results
              first_seen == {i \in 1..Len(fr) :
                                /\ is_success(fr[i])
                                /\ SlugPath(<<>>, fr[i].page_slug, ".md") \notin DOMAIN docs}
              with_text == {i \in first_seen : fr[i].content[1] # <<>>}
          IN /\ \A i \in first_seen :
                   LET path == SlugPath(<<>>, fr[i].page_slug, ".md")
                       diffs == DiffsFor(result'[1], fr[i].page_slug)
                   IN IF i \in with_text
                      THEN /\ Cardinality(diffs) = 1
                           /\ \A k \in diffs :
                                 /\ result'[1].diffs[k].old_content = <<>>
                                 /\ result'[1].diffs[k].new_content = fr[i].content[1]
                           /\ path \in DOMAIN docs'
                           /\ docs'[path] = fr[i].content[1]
                      ELSE /\ diffs = {}
                           /\ path \notin DOMAIN docs'
             /\ docs = [path \in {} |-> <<>>] =>
                   result'[1].changed_pages = Cardinality(with_text)]_vars

\* C26 witness: the first run found no snapshot, fetched the first page empty
\* and the second with text, counted one change and saved the second only.
C26_Witness ==
    /\ runs = 1
    /\ last_run[1].fetch_results[1].content = << <<>> >>
    /\ last_run[1].fetch_results[2].content = << <<"a">> >>
    /\ result[1].changed_pages = 1
    /\ result[1].diffs[1].page_slug = RunPages[2]
    /\ DOMAIN docs = {SlugPath(<<>>, RunPages[2], ".md")}

\* C27: a run of the command line in which no page changed writes no
\* snapshot, leaves the meta.json and index.html of every day and the main
\* index as they are and sends no notification; a run with a changed page and
\* reports wanted appends one batch to the record of its day and rebuilds the
\* main index from the records.
C27_OnlyRunsWithChangesWriteRecords ==
    [][cli' # cli =>
          LET c == cli'[1]
              date_dir == _get_date_dir(c.report_time)
          IN /\ ~HasPendingChange(docs, c.fetch_results) =>
                   /\ docs' = docs
                   /\ meta' = meta
                   /\ daily_index' = daily_index
                   /\ main_index' = main_index
                   /\ ~c.notified
             /\ (HasPendingChange(docs, c.fetch_results) /\ ~c.no_reports) =>
                   /\ meta'[date_dir] # <<>>
                   /\ Len(meta'[date_dir][1].batches)
                         = Len(LoadBatches(meta[date_dir])) + 1
                   /\ \A d \in DayDirs \ {date_dir} : meta'[d] = meta[d]
                   /\ main_index' = <<ScanReports(meta', daily_index', artifacts')>>]_vars

(***************************************************************************)
(* Claims about the link of the notification                                *)
(***************************************************************************)
\* The github_pages_url of the configuration.
PagesUrl == <<"https://user.github.io/repo">>

\* C28: for the time of every generate_daily_index call made, get_report_url
\* of that time is the base URL followed by the year/month/day directory the
\* call wrote its daily index in.
C28_ReportUrlNamesTheDayDirectory ==
    \A d \in DayDirs :
        \A i \in 1..Len(calls[d]) :
            /\ get_report_url(PagesUrl, calls[d][i])
                  = PagesUrl \o <<"/">> \o d[1] \o <<"/">> \o d[2] \o <<"/">> \o d[3] \o <<"/">>
            /\ get_report_url(<<>>, calls[d][i])
                  = d[1] \o <<"/">> \o d[2] \o <<"/">> \o d[3] \o <<"/">>

(***************************************************************************)
(* Claims about the page artifacts of repeated runs                         *)
(***************************************************************************)
\* C29: a run replaces no page artifact rendered by an earlier run: when a
\* page changes again on the day of an earlier change, the artifact of the
\* earlier diff is still what the earlier run rendered.
C29_EarlierArtifactKept ==
    [][runs' = runs + 1 =>
          \A q \in DOMAIN artifacts :
              /\ q \in DOMAIN artifacts'
              /\ artifacts'[q] = artifacts[q]]_vars

(***************************************************************************)
(* Claims about the counters of a run result                                *)
(***************************************************************************)
\* C30: in the result DocMonitor.run has returned, total_pages is the number
\* of pages requested, changed_pages the number of diffs, failed_pages the
\* number of errors, and changed_pages + failed_pages is at most total_pages.
C30_CountersOfARunResult ==
    result # <<>> =>
        /\ result[1].total_pages = Len(RunPages)
        /\ result[1].total_pages = Len(last_run[1].fetch_results)
        /\ result[1].changed_pages = Len(result[1].diffs)
        /\ result[1].failed_pages = Len(result[1].errors)
        /\ result[1].changed_pages + result[1].failed_pages <= result[1].total_pages

\* C30 witness: a run of two pages returned with one diff and one error.
C30_Witness ==
    /\ result # <<>>
    /\ result[1].total_pages = 2
    /\ Len(result[1].diffs) = 1
    /\ Len(result[1].errors) = 1
    /\ result[1].changed_pages = 1
    /\ result[1].failed_pages = 1

============================================================================
